---- MODULE Spec2Model ----
(***************************************************************************)
(* State-machine model of crowd-cast's synchronization engine              *)
(* (src/src/sync/engine.rs): the SyncEngine select loop with its handlers  *)
(* (start/stop/rotate/poll/input/flush) and the background upload task     *)
(* spawned by SyncEngine::spawn_upload_task, together with the display     *)
(* monitor (src/src/capture/recovery.rs) and the pause state of the        *)
(* capture runtime (src/src/capture/context.rs), and the channels that     *)
(* carry input events and commands to the engine.                          *)
(*                                                                         *)
(* Conventions.                                                            *)
(*  - Option<T> is a sequence of length 0 (None) or 1 (Some(x)).           *)
(*  - A uuid is a positive integer drawn from a counter (every start       *)
(*    mints a fresh one); 0 stands for the literal "unknown" / "" that     *)
(*    the code uses when main_session_id is None.                          *)
(*  - A segment id "{uuid}_seg{index:04}" is the record [sid, idx]; the    *)
(*    file names derived from it (recording_{id}.ext, input_{id}.msgpack,  *)
(*    input_{id}_partial_{millis}.msgpack) are keyed by that record.       *)
(*  - Outcomes of I/O and of capture-runtime calls are inputs of the       *)
(*    actions (\E ok \in BOOLEAN).                                         *)
(***************************************************************************)
EXTENDS Integers, Sequences, FiniteSets, TLC

\* ------------------------------------------------------------------ bounds
MaxSegments == 2        \* recordings the capture runtime is asked to start in one run
MaxEvents == 2          \* input events admitted to the buffer in one run
SpillThreshold == 2     \* stands for the literal 10000 of handle_input_event
MaxMillis == 2          \* distinct wall-clock millisecond stamps of partial files
MaxFaults == 1          \* failed or slow I/O and capture-runtime calls in one run
MaxUploadFailures == 1  \* failed uploads in one run of the engine with its upload task
MaxRetryFailures == 12  \* failed uploads in one run of the retry schedule
MaxInFlight == 1        \* input events in flight on the input channel
MaxCmds == 3            \* commands sent on the command channel in one run
MaxDueFailures == 2     \* failed uploads in one run of the retry arm on its own
MaxSeconds == 2         \* seconds that pass in one run of the engine with its rotation timer

\* ------------------------------------------------------- program constants
BASE_RETRY_BACKOFF == 30000           \* ms
MAX_RETRY_BACKOFF == 7200000          \* ms
MAX_RETRY_WINDOW == 7200000           \* ms

VARIABLES
    \* ---- SyncEngine fields
    cfg,                  \* Config (read-only during a run)
    engine_loop,          \* "created" | "running" | "stopped" | "failed"
    capture_enabled,
    last_frontmost_app,
    current_session,      \* Option<RecordingSession>
    recording_start_ns,   \* Option<u64>
    main_session_id,      \* Option<uuid>
    segment_index,
    event_buffer,         \* InputEventBuffer.events
    segment_timer,        \* run()'s local Option<Interval>: TRUE iff Some
    timer_start,          \* the Instant::now() that Interval was made at: its
                          \* ticks are due one period after it, two periods, ...
    engine_now,           \* Instant::now() as run() reads it, in seconds
    status,               \* last EngineStatus sent on status_tx
    upload_chan,          \* messages in flight on upload_tx / upload_rx
    input_chan,           \* events in flight on input_tx / input_rx
    cmd_chan,             \* commands in flight on cmd_tx / cmd_rx
    \* ---- SyncEngine.display_monitor (DisplayMonitor fields)
    last_display_ids,     \* Vec<u32>
    displays_were_disconnected,
    original_display_id,  \* Option<u32>
    \* ---- capture runtime and file system
    ctx_recording,        \* CaptureContext.recording / current_session
    ctx_paused,           \* CaptureContext.state.recording.is_paused
    ctx_state,            \* the other flags of CaptureContext.state:
                          \* should_capture, is_recording, any_source_active
    obs_ticks,            \* capture clock, in ticks (ObsNowNs); it advances
                          \* between the input events the engine handles
    disk_partials,        \* input_{seg}_partial_{millis}.msgpack
    disk_inputs,          \* input_{seg}.msgpack
    disk_videos,          \* recording_{seg}.ext
    \* ---- history (not program state)
    next_uuid,
    next_event_id,
    pushed,               \* [seg, id, in_session, video]: event id pushed while
                          \* seg was current and video the last one started
    sent,                 \* every CompletedSegment ever sent, in order
    faults,               \* failed calls injected so far
    starts,               \* capture-runtime start_recording calls so far
    write_failed,         \* the last handler failed to write a final input file
    started_video,        \* the video the capture runtime started last
    display_event,        \* the last check_for_changes call: the ids it
                          \* sampled, its event and what the engine did with it
    received,             \* every command sent on cmd_tx, in order
    processed,            \* the commands taken from cmd_rx, in order
    \* ---- the upload task (locals of spawn_upload_task)
    retry_queue,          \* BinaryHeap<RetryEntry>, as a set
    sequence,
    active_session_id,    \* Option<uuid>
    wpc,                  \* "select" | "drain" (inside the while of the retry arm)
    wnow,                 \* `now` of the retry arm
    clock,                \* tokio Instant::now(), in ms
    \* ---- history of the upload task (not program state)
    whist,                \* chunk_id -> what the task has done with it
    upload_failures       \* failed upload attempts so far

engineVars == <<cfg, engine_loop, capture_enabled, last_frontmost_app,
                current_session, recording_start_ns, main_session_id,
                segment_index, event_buffer, segment_timer, timer_start,
                engine_now, status>>
timerVars == <<segment_timer, timer_start, engine_now>>
envVars == <<ctx_recording, ctx_paused, ctx_state, obs_ticks, disk_partials, disk_inputs,
             disk_videos>>
histVars == <<next_uuid, next_event_id, pushed, sent, faults, starts,
              write_failed, started_video>>
workerVars == <<retry_queue, sequence, active_session_id, wpc, wnow, clock,
                whist, upload_failures>>
displayVars == <<last_display_ids, displays_were_disconnected,
                 original_display_id, display_event>>
cmdVars == <<cmd_chan, received, processed>>
chanVars == <<input_chan, cmdVars>>
vars == <<engineVars, upload_chan, envVars, histVars, workerVars, displayVars,
          chanVars>>

\* ----------------------------------------------------------------- options
None == << >>
Some(x) == <<x>>
IsSome(o) == o # << >>
Unwrap(o) == o[1]

\* ------------------------------------------------------------------ config
Apps == {"A", "B"}

Config(ca, ta, d, uc, del, auto) ==
    [capture_all |-> ca, target_apps |-> ta, segment_duration_secs |-> d,
     uploader_configured |-> uc, delete_after_upload |-> del,
     autostart_on_launch |-> auto]

Configs ==
    { Config(FALSE, {"A"}, 5, TRUE, TRUE, FALSE),
      Config(TRUE, {}, 0, TRUE, FALSE, TRUE),
      Config(FALSE, {}, 5, FALSE, TRUE, FALSE) }

\* a test of the allow list that does not look at capture_all
InTargetApps(c, bundle_id) == bundle_id \in c.target_apps

\* Config::should_capture_app
ShouldCaptureApp(c, bundle_id) ==
    IF c.capture_all THEN TRUE
    ELSE IF c.target_apps = {} THEN FALSE
    ELSE bundle_id \in c.target_apps

\* the match at the top of poll_frontmost_app
AppAllowed(c, frontmost) ==
    IF IsSome(frontmost) THEN ShouldCaptureApp(c, Unwrap(frontmost))
    ELSE c.capture_all

\* --------------------------------------------------------------- segments
\* a segment id that leaves the index out
SegmentIdOfSession(main, idx) ==
    [sid |-> IF main # << >> THEN main[1] ELSE 0, idx |-> 0]

\* SyncEngine::current_segment_id
SegmentId(main, idx) ==
    [sid |-> IF IsSome(main) THEN Unwrap(main) ELSE 0, idx |-> idx]

CurrentSegmentId == SegmentId(main_session_id, segment_index)

\* a rotation that keeps the index
SameSegmentIndex(i) == i

NextSegmentIndex(i) == i + 1

\* --------------------------------------------------------------- events
SatSub(a, b) == IF a >= b THEN a - b ELSE 0

\* the capture clock, observed in steps of 1500 ns
ObsNs(ticks) == ticks * 1500

ObsNowNs == ObsNs(obs_ticks)

\* elapsed_us of handle_input_event
ElapsedUs(current_ns, start_ns) == SatSub(current_ns, start_ns) \div 1000

\* a clear that leaves the events in the buffer
ClearKeeping(buf) == buf

\* InputEventBuffer::clear
Clear(buf) == << >>

\* a drain that returns a copy and leaves the buffer as it was
DrainKeeping(buf) == [out |-> buf, rest |-> buf]

\* InputEventBuffer::drain (std::mem::take): what is returned, what is left
Drain(buf) == [out |-> buf, rest |-> << >>]

\* a consolidation that does not sort
Unsorted(s) == s

RECURSIVE InsertByKey(_, _)
InsertByKey(e, s) ==
    IF s = << >> THEN <<e>>
    ELSE IF s[Len(s)].timestamp_us <= e.timestamp_us THEN Append(s, e)
    ELSE Append(InsertByKey(e, SubSeq(s, 1, Len(s) - 1)), s[Len(s)])

\* Vec::sort_by_key(|e| e.timestamp_us): a stable sort
RECURSIVE SortByKey(_)
SortByKey(s) ==
    IF s = << >> THEN << >>
    ELSE InsertByKey(s[Len(s)], SortByKey(SubSeq(s, 1, Len(s) - 1)))

\* partial files of one segment, concatenated in file-name order
RECURSIVE ConcatPartials(_, _)
ConcatPartials(files, unreadable) ==
    IF files = {} THEN << >>
    ELSE LET f == CHOOSE x \in files : \A y \in files : x.millis <= y.millis
         IN (IF f.millis \in unreadable THEN << >> ELSE f.events)
            \o ConcatPartials(files \ {f}, unreadable)

PartialsOf(partials, seg) == {f \in partials : f.seg = seg}

PartialNames(partials, seg) == {f.millis : f \in PartialsOf(partials, seg)}

\* SyncEngine::collect_segment_events on engine state s: the sorted list, and
\* the buffer and the partial files it leaves behind
CollectSegmentEvents(s, seg, unreadable, undeletable) ==
    LET files == PartialsOf(s.disk_partials, seg)
        d == Drain(s.event_buffer)
        all == ConcatPartials(files, unreadable) \o d.out
    IN [events |-> SortByKey(all),
        buffer |-> d.rest,
        partials |-> s.disk_partials \ {f \in files : f.millis \notin undeletable}]

FirstTs(events) == IF events = << >> THEN 0 ELSE events[1].timestamp_us
LastTs(events) == IF events = << >> THEN 0 ELSE events[Len(events)].timestamp_us

\* tokio::fs::write of a final input file (create or truncate)
WriteInput(files, seg, events) ==
    {f \in files : f.seg # seg} \cup {[seg |-> seg, events |-> events]}

\* tokio::fs::write of a partial file
WritePartial(files, seg, millis, events) ==
    {f \in files : ~(f.seg = seg /\ f.millis = millis)}
        \cup {[seg |-> seg, millis |-> millis, events |-> events]}

CompletedSegment(seg, session, video, events) ==
    [chunk |-> [chunk_id |-> seg, session_id |-> session, video_path |-> video,
                events |-> events, start_time_us |-> FirstTs(events),
                end_time_us |-> LastTs(events)],
     input_path |-> seg]

StartSessionMsg(s) == [kind |-> "StartSession", session |-> s, segment |-> None]
SegmentMsg(cs) == [kind |-> "Segment", session |-> 0, segment |-> Some(cs)]

\* ------------------------------------------------------- display monitor
DisplayIds == {1, 2}

\* the display lists CGDisplay::active_displays can report
DisplayLists ==
    {<< >>} \cup {<<a>> : a \in DisplayIds}
            \cup {p \in DisplayIds \X DisplayIds : p[1] # p[2]}

\* slice::contains
Contains(ids, d) == \E i \in 1..Len(ids) : ids[i] = d

\* ids.first().copied().unwrap_or(0)
FirstOr0(ids) == IF ids = << >> THEN 0 ELSE ids[1]

Event(kind, display_id, from_id, to_id) ==
    [kind |-> kind, display_id |-> display_id, from_id |-> from_id, to_id |-> to_id]

\* no check_for_changes call was made yet
NoEvent ==
    [sampled |-> << >>, kind |-> "None", display_id |-> 0, from_id |-> 0,
     to_id |-> 0, refresh |-> FALSE, notice |-> "none"]

\* a test that takes the original display for returned whenever it is there
OriginalPresent(orig, old_ids, current_ids) ==
    IsSome(orig) /\ Contains(current_ids, Unwrap(orig))

\* check_for_changes: the original display is in the sample and was not in
\* the list before
OriginalCameBack(orig, old_ids, current_ids) ==
    /\ IsSome(orig)
    /\ Contains(current_ids, Unwrap(orig))
    /\ ~Contains(old_ids, Unwrap(orig))

\* DisplayMonitor::check_for_changes on monitor m when get_display_ids()
\* returns current_ids: the monitor after the call and the event returned
CheckForChanges(m, current_ids) ==
    IF current_ids = m.last_display_ids
    THEN [monitor |-> m, event |-> Event("None", 0, 0, 0)]
    ELSE LET old_ids == m.last_display_ids
             replaced == [m EXCEPT !.last_display_ids = current_ids]
             reconnected == [replaced EXCEPT !.displays_were_disconnected = FALSE]
         IN IF current_ids = << >>
            THEN [monitor |-> [replaced EXCEPT !.displays_were_disconnected = TRUE],
                  event |-> Event("AllDisconnected", 0, 0, 0)]
            ELSE IF OriginalCameBack(m.original_display_id, old_ids, current_ids)
            THEN [monitor |-> reconnected,
                  event |-> Event("OriginalReturned",
                                  Unwrap(m.original_display_id), 0, 0)]
            ELSE [monitor |-> reconnected,
                  event |-> Event("SwitchedToNew", 0, FirstOr0(old_ids),
                                  FirstOr0(current_ids))]

\* the DisplayMonitor held by engine state s
MonitorOf(s) ==
    [last_display_ids |-> s.last_display_ids,
     displays_were_disconnected |-> s.displays_were_disconnected,
     original_display_id |-> s.original_display_id]

\* check_display_changes, OriginalReturned arm: the capture runtime is asked
\* to refresh its sources in place (recreate_sources does not touch the
\* recording), and the user is told when that worked
OnOriginalReturned(s, recreate_ok) ==
    [s EXCEPT !.display_event.refresh = TRUE,
              !.display_event.notice = IF recreate_ok THEN "capture-resumed"
                                       ELSE "none"]

\* a handler that switches to the new display by itself
AutoSwitch(s) ==
    [s EXCEPT !.original_display_id = Some(s.display_event.to_id),
              !.display_event.refresh = TRUE,
              !.display_event.notice = "display-change"]

\* check_display_changes, SwitchedToNew arm: a notification and nothing else
OnSwitchedToNew(s) == [s EXCEPT !.display_event.notice = "display-change"]

\* SyncEngine::check_display_changes
CheckDisplayChanges(s, current_ids, recreate_ok) ==
    LET r == CheckForChanges(MonitorOf(s), current_ids)
        seen == [s EXCEPT
                   !.last_display_ids = r.monitor.last_display_ids,
                   !.displays_were_disconnected = r.monitor.displays_were_disconnected,
                   !.original_display_id = r.monitor.original_display_id,
                   !.display_event =
                       [sampled |-> current_ids, kind |-> r.event.kind,
                        display_id |-> r.event.display_id,
                        from_id |-> r.event.from_id, to_id |-> r.event.to_id,
                        refresh |-> FALSE, notice |-> "none"]]
    IN IF r.event.kind = "OriginalReturned" THEN OnOriginalReturned(seen, recreate_ok)
       ELSE IF r.event.kind = "SwitchedToNew" THEN OnSwitchedToNew(seen)
       ELSE seen

\* SyncEngine::switch_to_display; uuid_ok tells whether get_display_uuid
\* finds the display
SwitchToDisplay(s, display_id, uuid_ok) ==
    IF uuid_ok THEN [s EXCEPT !.original_display_id = Some(display_id)] ELSE s

\* ------------------------------------------------------------------- Init
\* CaptureState::default()
DefaultState ==
    [should_capture |-> FALSE, is_recording |-> FALSE, any_source_active |-> FALSE]

\* the CaptureState main() hands to the engine: setup_capture returned Ok
\* (main exits otherwise)
SetUpState == [DefaultState EXCEPT !.any_source_active = TRUE]

\* the state after SyncEngine::new(config, ..) around a capture runtime
\* whose CaptureState is `state`
NewWith(config, display_ids, state) ==
    /\ cfg = config
    /\ ctx_state = state
    /\ last_display_ids = display_ids
    /\ displays_were_disconnected = FALSE
    /\ original_display_id = None
    /\ display_event = NoEvent
    /\ engine_loop = "created"
    /\ capture_enabled = FALSE
    /\ last_frontmost_app = None
    /\ current_session = None
    /\ recording_start_ns = None
    /\ main_session_id = None
    /\ segment_index = 0
    /\ event_buffer = << >>
    /\ segment_timer = FALSE
    /\ timer_start = None
    /\ engine_now = 0
    /\ status = "none"
    /\ upload_chan = << >>
    /\ input_chan = << >>
    /\ cmd_chan = << >>
    /\ received = << >>
    /\ processed = << >>
    /\ ctx_recording = None
    /\ ctx_paused = FALSE
    /\ obs_ticks = 0
    /\ disk_partials = {}
    /\ disk_inputs = {}
    /\ disk_videos = {}
    /\ next_uuid = 1
    /\ next_event_id = 1
    /\ pushed = {}
    /\ sent = << >>
    /\ faults = 0
    /\ starts = 0
    /\ write_failed = FALSE
    /\ started_video = None
    /\ retry_queue = {}
    /\ sequence = 0
    /\ active_session_id = None
    /\ wpc = "select"
    /\ wnow = 0
    /\ clock = 0
    /\ whist = << >>
    /\ upload_failures = 0

\* the state after SyncEngine::new(config, ..)
NewOn(config, display_ids) == NewWith(config, display_ids, SetUpState)

\* the engine on a host that reports no display (the DisplayMonitor of the
\* other platforms, or get_display_ids failing)
New(config) == NewOn(config, << >>)

Init == \E config \in Configs : New(config)

\* ---------------------------------------------------- the engine's handlers
\* The mutable engine, runtime and disk state as one record; every handler is
\* an operator from such a record (and the outcomes of its calls) to the
\* record after the handler, with `ok` telling whether it returned Ok.
Now ==
    [capture_enabled |-> capture_enabled,
     last_frontmost_app |-> last_frontmost_app,
     current_session |-> current_session,
     recording_start_ns |-> recording_start_ns,
     main_session_id |-> main_session_id,
     segment_index |-> segment_index,
     event_buffer |-> event_buffer,
     status |-> status,
     upload_chan |-> upload_chan,
     ctx_recording |-> ctx_recording,
     ctx_paused |-> ctx_paused,
     ctx_state |-> ctx_state,
     disk_partials |-> disk_partials,
     disk_inputs |-> disk_inputs,
     disk_videos |-> disk_videos,
     next_uuid |-> next_uuid,
     next_event_id |-> next_event_id,
     pushed |-> pushed,
     sent |-> sent,
     starts |-> starts,
     write_failed |-> FALSE,
     started_video |-> started_video,
     last_display_ids |-> last_display_ids,
     displays_were_disconnected |-> displays_were_disconnected,
     original_display_id |-> original_display_id,
     display_event |-> display_event,
     ok |-> TRUE]

Becomes(r) ==
    /\ capture_enabled' = r.capture_enabled
    /\ last_frontmost_app' = r.last_frontmost_app
    /\ current_session' = r.current_session
    /\ recording_start_ns' = r.recording_start_ns
    /\ main_session_id' = r.main_session_id
    /\ segment_index' = r.segment_index
    /\ event_buffer' = r.event_buffer
    /\ status' = r.status
    /\ upload_chan' = r.upload_chan
    /\ ctx_recording' = r.ctx_recording
    /\ ctx_paused' = r.ctx_paused
    /\ ctx_state' = r.ctx_state
    /\ disk_partials' = r.disk_partials
    /\ disk_inputs' = r.disk_inputs
    /\ disk_videos' = r.disk_videos
    /\ next_uuid' = r.next_uuid
    /\ next_event_id' = r.next_event_id
    /\ pushed' = r.pushed
    /\ sent' = r.sent
    /\ starts' = r.starts
    /\ write_failed' = r.write_failed
    /\ started_video' = r.started_video
    /\ last_display_ids' = r.last_display_ids
    /\ displays_were_disconnected' = r.displays_were_disconnected
    /\ original_display_id' = r.original_display_id
    /\ display_event' = r.display_event

SegOf(s) == SegmentId(s.main_session_id, s.segment_index)

\* a stop that leaves the recording with the capture runtime
RecordingKept(s, fail) == s

\* CaptureContext::stop_recording: the recording is taken before its stop()
\* can fail, and the state is updated only after stop() returned Ok
CtxStopRecording(s, fail) ==
    [s EXCEPT !.ctx_recording = None,
              !.ctx_paused = IF IsSome(s.ctx_recording) /\ fail # "stop"
                             THEN FALSE ELSE @,
              !.ctx_state = IF IsSome(s.ctx_recording) /\ fail # "stop"
                            THEN [@ EXCEPT !.is_recording = FALSE,
                                           !.should_capture = FALSE]
                            ELSE @]

\* CaptureContext::pause_recording
CtxPauseRecording(s, pause_ok) ==
    IF ~IsSome(s.ctx_recording) THEN s
    ELSE IF ~pause_ok THEN [s EXCEPT !.ok = FALSE]
    ELSE [s EXCEPT !.ctx_paused = TRUE, !.ctx_state.should_capture = FALSE]

\* CaptureContext::resume_recording
CtxResumeRecording(s, resume_ok) ==
    IF ~IsSome(s.ctx_recording) THEN s
    ELSE IF ~resume_ok THEN [s EXCEPT !.ok = FALSE]
    ELSE [s EXCEPT !.ctx_paused = FALSE,
                   !.ctx_state.should_capture =
                       s.ctx_state.is_recording /\ s.ctx_state.any_source_active]

\* CaptureContext::start_recording, the update of the state
StateAfterStart(state) ==
    [state EXCEPT !.is_recording = TRUE,
                  !.should_capture = state.any_source_active]

\* CaptureContext::start_recording succeeds only when no recording is held
CtxStartSucceeds(s, start_ok) == start_ok /\ s.ctx_recording = None

\* tokio::fs::write of the final input file of `seg`, with its outcome
WriteFinal(s, seg, events, fail) ==
    IF fail = "write"
    THEN [s EXCEPT !.write_failed = TRUE]
    ELSE [s EXCEPT !.disk_inputs = WriteInput(@, seg, events)]

\* a handler that goes on after a failed write
WriteErrorIgnored(fail) == FALSE

\* the `?` on the write of the final input file: the handler returns Err
WriteFinalFailed(fail) == fail = "write"

\* upload_tx.send(UploadMessage::Segment(..)) under uploader.is_configured()
QueueSegment(s, c, cs) ==
    IF c.uploader_configured
    THEN [s EXCEPT !.upload_chan = Append(@, SegmentMsg(cs)),
                   !.sent = Append(@, cs),
                   !.status = "Uploading"]
    ELSE s

\* a start that does not look for a recording in progress
NeverRecording(s) == FALSE

\* start_recording: `if self.current_session.is_some()`, the early return
AlreadyRecording(s) == IsSome(s.current_session)

\* SyncEngine::start_recording
StartRecording(s, now_ns, start_ok, uuid_ok) ==
    IF AlreadyRecording(s) THEN s
    ELSE LET uuid == s.next_uuid
             seg == SegmentId(Some(uuid), 0)
             minted == [s EXCEPT !.main_session_id = Some(uuid),
                                 !.next_uuid = uuid + 1,
                                 !.segment_index = 0,
                                 !.upload_chan = Append(@, StartSessionMsg(uuid)),
                                 !.original_display_id =
                                     IF s.last_display_ids # << >> /\ uuid_ok
                                     THEN Some(s.last_display_ids[1]) ELSE @,
                                 !.starts = @ + 1]
         IN IF ~CtxStartSucceeds(minted, start_ok)
            THEN [minted EXCEPT !.ok = FALSE]
            ELSE [minted EXCEPT
                    !.ctx_recording = Some(seg),
                    !.ctx_paused = FALSE,
                    !.ctx_state = StateAfterStart(@),
                    !.started_video = Some(seg),
                    !.disk_videos = @ \cup {seg},
                    !.recording_start_ns = Some(now_ns),
                    !.current_session =
                        Some([session_id |-> seg, start_time_ns |-> now_ns]),
                    !.event_buffer = Clear(@),
                    !.status = "Capturing"]

\* SyncEngine::stop_recording
StopRecording(s, c, unreadable, undeletable, fail) ==
    IF ~IsSome(s.current_session) THEN s
    ELSE LET seg == SegOf(s)
             video == Some(Unwrap(s.current_session).session_id)
             col == CollectSegmentEvents(s, seg, unreadable, undeletable)
             collected == [s EXCEPT !.event_buffer = col.buffer,
                                    !.disk_partials = col.partials]
             written == WriteFinal(collected, seg, col.events, fail)
             stopped == CtxStopRecording(written, fail)
             session == IF IsSome(s.main_session_id)
                        THEN Unwrap(s.main_session_id) ELSE 0
             queued == QueueSegment(stopped, c,
                           CompletedSegment(seg, session, video, col.events))
         IN IF WriteFinalFailed(fail) THEN [written EXCEPT !.ok = FALSE]
            ELSE IF IsSome(s.ctx_recording) /\ fail = "stop"
                 THEN [stopped EXCEPT !.ok = FALSE]
            ELSE [queued EXCEPT !.current_session = None,
                                !.recording_start_ns = None,
                                !.main_session_id = None,
                                !.segment_index = 0,
                                !.original_display_id = None,
                                !.status = "Idle"]

\* a failed start that leaves the session bookkeeping as it was
RotationStartKept(s) == [s EXCEPT !.ok = FALSE]

\* rotate_segment, Err arm of start_recording: the failure is fatal for the
\* session
RotationStartFailed(s) ==
    [s EXCEPT !.main_session_id = None,
              !.segment_index = 0,
              !.status = "Error",
              !.ok = FALSE]

\* a rotation that leaves the gate as it finds it
GateLeftOpen(s) == s

\* rotate_segment: `self.capture_enabled = false` before anything else
CloseGate(s) == [s EXCEPT !.capture_enabled = FALSE]

\* SyncEngine::rotate_segment
RotateSegment(s, c, now_ns, unreadable, undeletable, fail) ==
    IF ~IsSome(s.current_session) THEN s
    ELSE IF ~IsSome(s.main_session_id) THEN [s EXCEPT !.ok = FALSE]
    ELSE LET was_capturing == s.capture_enabled
             seg == SegOf(s)
             video == Some(Unwrap(s.current_session).session_id)
             closed == CloseGate(s)
             col == CollectSegmentEvents(closed, seg, unreadable, undeletable)
             collected == [closed EXCEPT !.event_buffer = col.buffer,
                                         !.disk_partials = col.partials]
             written == WriteFinal(collected, seg, col.events, fail)
             stopped == CtxStopRecording(written, fail)
             queued == QueueSegment(stopped, c,
                           CompletedSegment(seg, Unwrap(s.main_session_id),
                                            video, col.events))
             cleared == [queued EXCEPT
                            !.current_session = None,
                            !.recording_start_ns = None,
                            !.segment_index = NextSegmentIndex(@),
                            !.starts = @ + 1]
             new_seg == SegOf(cleared)
         IN IF WriteFinalFailed(fail) THEN [written EXCEPT !.ok = FALSE]
            ELSE IF IsSome(s.ctx_recording) /\ fail = "stop"
                 THEN [stopped EXCEPT !.ok = FALSE]
            ELSE IF ~CtxStartSucceeds(cleared, fail # "start")
                 THEN RotationStartFailed(cleared)
            ELSE [cleared EXCEPT
                    !.ctx_recording = Some(new_seg),
                    !.ctx_paused = FALSE,
                    !.ctx_state = StateAfterStart(@),
                    !.started_video = Some(new_seg),
                    !.disk_videos = @ \cup {new_seg},
                    !.recording_start_ns = Some(now_ns),
                    !.current_session =
                        Some([session_id |-> new_seg, start_time_ns |-> now_ns]),
                    !.capture_enabled = was_capturing,
                    !.status = "Capturing"]

\* a flush that empties the buffer only once the partial file is written
FlushAfterWrite(s, millis, write_ok) ==
    IF s.event_buffer = << >> THEN s
    ELSE IF ~write_ok THEN [s EXCEPT !.ok = FALSE]
    ELSE [s EXCEPT !.event_buffer = << >>,
                   !.disk_partials = WritePartial(@, SegOf(s), millis, s.event_buffer)]

\* SyncEngine::flush_event_buffer
FlushEventBuffer(s, millis, write_ok) ==
    IF s.event_buffer = << >> THEN s
    ELSE LET d == Drain(s.event_buffer)
             drained == [s EXCEPT !.event_buffer = d.rest]
         IN IF ~write_ok THEN [drained EXCEPT !.ok = FALSE]
            ELSE [drained EXCEPT
                    !.disk_partials = WritePartial(@, SegOf(s), millis, d.out)]

\* SyncEngine::handle_input_event; raw_ts is the backend's own timestamp and
\* frame_time the result of get_video_frame_time (None for Err)
HandleInputEvent(s, raw_ts, frame_time, millis, write_ok) ==
    IF ~s.capture_enabled THEN s
    ELSE LET current_ns == IF IsSome(frame_time) THEN Unwrap(frame_time) ELSE 0
             ts == IF IsSome(s.recording_start_ns)
                   THEN ElapsedUs(current_ns, Unwrap(s.recording_start_ns))
                   ELSE raw_ts
             e == [id |-> s.next_event_id, timestamp_us |-> ts]
             buffered == [s EXCEPT
                            !.event_buffer = Append(@, e),
                            !.next_event_id = @ + 1,
                            !.pushed = @ \cup {[seg |-> SegOf(s), id |-> e.id,
                                                in_session |-> IsSome(s.current_session),
                                                video |-> s.started_video]}]
         IN IF Len(buffered.event_buffer) >= SpillThreshold
            THEN [FlushEventBuffer(buffered, millis, write_ok) EXCEPT !.ok = TRUE]
            ELSE buffered

\* SyncEngine::poll_frontmost_app
PollFrontmostApp(s, c, frontmost) ==
    LET should_capture == AppAllowed(c, frontmost)
        is_recording == IsSome(s.current_session)
        enabled == should_capture /\ is_recording
    IN [s EXCEPT !.last_frontmost_app = frontmost,
                 !.capture_enabled = enabled,
                 !.status = IF is_recording
                            THEN (IF enabled THEN "Capturing" ELSE "RecordingBlocked")
                            ELSE @]

\* EngineCommand::PauseRecording as the specification of the engine's
\* commands has it: with a session active and not paused the gate closes and
\* the capture runtime is signaled to pause
PauseRecording(s, pause_ok) ==
    IF ~IsSome(s.current_session) \/ s.ctx_paused THEN s
    ELSE LET closed == [s EXCEPT !.capture_enabled = FALSE]
             paused == CtxPauseRecording(closed, pause_ok)
         IN IF paused.ok /\ paused.ctx_paused
            THEN [paused EXCEPT !.status = "Paused"]
            ELSE paused

\* EngineCommand::ResumeRecording as the specification of the engine's
\* commands has it: with the session paused the capture runtime resumes and
\* the gate is evaluated again
ResumeRecording(s, c, resume_ok) ==
    IF ~IsSome(s.current_session) \/ ~s.ctx_paused THEN s
    ELSE LET resumed == CtxResumeRecording(s, resume_ok)
         IN IF ~resumed.ok THEN resumed
            ELSE PollFrontmostApp(resumed, c, resumed.last_frontmost_app)

\* --------------------------------------------------- the engine's select loop
\* Outcomes of the calls a consolidation makes: the partial files that cannot
\* be read or deleted, and the call that fails (`?` returns at the first one).
Outcomes(seg, fails) ==
    {o \in [unreadable : SUBSET PartialNames(disk_partials, seg),
            undeletable : SUBSET PartialNames(disk_partials, seg),
            fail : fails] :
        faults + Cardinality(o.unreadable) + Cardinality(o.undeletable)
            + (IF o.fail = "none" THEN 0 ELSE 1) <= MaxFaults}

Cost(o) ==
    Cardinality(o.unreadable) + Cardinality(o.undeletable)
        + (IF o.fail = "none" THEN 0 ELSE 1)

MayFail == IF faults < MaxFaults THEN BOOLEAN ELSE {TRUE}

\* get_display_uuid of the first known display, asked only when there is one
UuidOutcomes == IF last_display_ids = << >> THEN {TRUE} ELSE BOOLEAN

\* a loop that makes a rotation timer whatever the segment duration is
TimerAlways == TRUE

\* the `if self.segment_duration_secs > 0` after a successful start
TimerAfterStart == IF cfg.segment_duration_secs > 0 THEN TRUE ELSE segment_timer

\* segment_timer = Some(interval_at(Instant::now() + duration, duration))
\* under `if self.segment_duration_secs > 0`
TimerMade ==
    /\ segment_timer' = TimerAfterStart
    /\ timer_start' = IF cfg.segment_duration_secs > 0 THEN Some(engine_now)
                      ELSE timer_start
    /\ UNCHANGED engine_now

\* segment_timer = None
TimerDropped ==
    /\ segment_timer' = FALSE
    /\ timer_start' = None
    /\ UNCHANGED engine_now

\* the handler leaves run()'s segment_timer alone
TimerKept == UNCHANGED timerVars

Cmd(kind, arg) == [kind |-> kind, arg |-> arg]

\* Some(cmd) = self.cmd_rx.recv(): the command at the head of the channel is
\* taken; with nothing in flight the step stands for a command that is sent
\* and received at once
CmdTaken(cmd) ==
    IF cmd_chan = << >> THEN UNCHANGED cmdVars
    ELSE /\ Head(cmd_chan) = cmd
         /\ cmd_chan' = Tail(cmd_chan)
         /\ processed' = Append(processed, cmd)
         /\ UNCHANGED received

\* run(): the prologue up to the first select
Run ==
    /\ engine_loop = "created"
    /\ \E start_ok \in (IF cfg.autostart_on_launch THEN MayFail ELSE {TRUE}),
          uuid_ok \in (IF cfg.autostart_on_launch THEN UuidOutcomes ELSE {TRUE}) :
         LET idle == [Now EXCEPT !.status = "Idle"]
             r == StartRecording(idle, ObsNowNs, start_ok, uuid_ok)
         IN /\ IF ~cfg.autostart_on_launch
               THEN Becomes(idle) /\ TimerKept
               ELSE IF r.ok
                    THEN Becomes(r) /\ TimerMade
                    ELSE Becomes([r EXCEPT !.status = "Error"])
                         /\ TimerKept
            /\ faults' = IF start_ok THEN faults ELSE faults + 1
    /\ engine_loop' = "running"
    /\ UNCHANGED <<workerVars, chanVars, cfg, obs_ticks>>

\* EngineCommand::StartRecording
CmdStartRecordingN(max_starts) ==
    /\ engine_loop = "running"
    /\ IsSome(current_session) \/ starts < max_starts
    /\ \E start_ok \in (IF IsSome(current_session) THEN {TRUE} ELSE MayFail),
          uuid_ok \in (IF IsSome(current_session) THEN {TRUE} ELSE UuidOutcomes) :
         LET r == StartRecording(Now, ObsNowNs, start_ok, uuid_ok)
         IN /\ Becomes(r)
            /\ engine_loop' = IF r.ok THEN "running" ELSE "failed"
            /\ IF r.ok THEN TimerMade ELSE TimerKept
            /\ faults' = IF start_ok THEN faults ELSE faults + 1
    /\ CmdTaken(Cmd("StartRecording", 0))
    /\ UNCHANGED <<workerVars, input_chan, cfg, obs_ticks>>

CmdStartRecording == CmdStartRecordingN(MaxSegments)

StopFails == IF IsSome(current_session) THEN {"none", "write", "stop"} ELSE {"none"}

\* EngineCommand::StopRecording
CmdStopRecording ==
    /\ engine_loop = "running"
    /\ \E o \in Outcomes(CurrentSegmentId, StopFails) :
         LET r == StopRecording(Now, cfg, o.unreadable, o.undeletable, o.fail)
         IN /\ Becomes(r)
            /\ engine_loop' = IF r.ok THEN "running" ELSE "failed"
            /\ IF r.ok THEN TimerDropped ELSE TimerKept
            /\ faults' = faults + Cost(o)
    /\ CmdTaken(Cmd("StopRecording", 0))
    /\ UNCHANGED <<workerVars, input_chan, cfg, obs_ticks>>

\* EngineCommand::SetCaptureEnabled
CmdSetCaptureEnabled ==
    /\ engine_loop = "running"
    /\ \E enabled \in BOOLEAN :
         /\ capture_enabled' = enabled
         /\ CmdTaken(Cmd("SetCaptureEnabled", enabled))
    /\ UNCHANGED <<workerVars, input_chan, cfg, engine_loop, last_frontmost_app, current_session,
                   recording_start_ns, main_session_id, segment_index,
                   event_buffer, timerVars, status, upload_chan,
                   envVars, histVars, displayVars>>

\* EngineCommand::PauseRecording
CmdPauseRecording ==
    /\ engine_loop = "running"
    /\ \E pause_ok \in (IF IsSome(current_session) /\ ~ctx_paused
                        THEN MayFail ELSE {TRUE}) :
         /\ Becomes([PauseRecording(Now, pause_ok) EXCEPT !.ok = TRUE])
         /\ faults' = IF pause_ok THEN faults ELSE faults + 1
    /\ CmdTaken(Cmd("PauseRecording", 0))
    /\ UNCHANGED <<workerVars, input_chan, cfg, engine_loop, timerVars, obs_ticks>>

\* EngineCommand::ResumeRecording
CmdResumeRecording ==
    /\ engine_loop = "running"
    /\ \E resume_ok \in (IF IsSome(current_session) /\ ctx_paused
                         THEN MayFail ELSE {TRUE}) :
         /\ Becomes([ResumeRecording(Now, cfg, resume_ok) EXCEPT !.ok = TRUE])
         /\ faults' = IF resume_ok THEN faults ELSE faults + 1
    /\ CmdTaken(Cmd("ResumeRecording", 0))
    /\ UNCHANGED <<workerVars, input_chan, cfg, engine_loop, timerVars, obs_ticks>>

\* a loop that goes on after Shutdown
LoopGoesOn(ok) == "running"

\* the Shutdown arm leaves the loop: `break` after stop_recording returned
\* Ok, the `?` out of run() otherwise
AfterShutdown(ok) == IF ok THEN "stopped" ELSE "failed"

\* EngineCommand::Shutdown
CmdShutdown ==
    /\ engine_loop = "running"
    /\ \E o \in Outcomes(CurrentSegmentId, StopFails) :
         LET r == StopRecording(Now, cfg, o.unreadable, o.undeletable, o.fail)
         IN /\ Becomes(r)
            /\ engine_loop' = AfterShutdown(r.ok)
            /\ faults' = faults + Cost(o)
    /\ CmdTaken(Cmd("Shutdown", 0))
    /\ UNCHANGED <<workerVars, input_chan, cfg, obs_ticks, timerVars>>

\* the backend's own timestamps (microseconds since backend start)
RawStamps == {7}

WillSpill == capture_enabled /\ Len(event_buffer) + 1 >= SpillThreshold

\* input_rx.recv() => handle_input_event on an event with one of the raw
\* timestamps `stamps`, for the first max_events events; `rest` is the input
\* channel after the event was taken
InputHandled(max_events, stamps, rest) ==
    /\ engine_loop = "running"
    /\ next_event_id <= max_events
    /\ input_chan' = rest
    /\ \E raw_ts \in stamps,
          dt \in (IF capture_enabled THEN {0, 1} ELSE {0}),
          frame_ok \in (IF capture_enabled /\ IsSome(recording_start_ns)
                        THEN MayFail ELSE {TRUE}),
          millis \in (IF WillSpill THEN 1..MaxMillis ELSE {1}),
          write_ok \in (IF WillSpill THEN MayFail ELSE {TRUE}) :
         /\ faults + (IF frame_ok THEN 0 ELSE 1) + (IF write_ok THEN 0 ELSE 1)
               <= MaxFaults
         /\ obs_ticks' = obs_ticks + dt
         /\ Becomes(HandleInputEvent(Now, raw_ts,
                      IF frame_ok THEN Some(ObsNs(obs_ticks + dt)) ELSE None,
                      millis, write_ok))
         /\ faults' = faults + (IF frame_ok THEN 0 ELSE 1)
                             + (IF write_ok THEN 0 ELSE 1)
    /\ UNCHANGED <<workerVars, cmdVars, cfg, engine_loop, timerVars>>

\* an event that the backend sends and the engine receives at once
InputEventN(max_events) == InputHandled(max_events, RawStamps, input_chan)

InputEvent == InputEventN(MaxEvents)

\* poll_timer.tick() => poll_frontmost_app, then check_display_changes; the
\* display list sampled by the check is one of `samples`
PollTickOn(samples) ==
    /\ engine_loop = "running"
    /\ \E frontmost \in {None} \cup {Some(a) : a \in Apps},
          current_ids \in samples :
         \E recreate_ok \in (IF current_ids = last_display_ids
                              THEN {TRUE} ELSE BOOLEAN) :
            Becomes(CheckDisplayChanges(PollFrontmostApp(Now, cfg, frontmost),
                                        current_ids, recreate_ok))
    /\ UNCHANGED <<workerVars, chanVars, cfg, engine_loop, timerVars, obs_ticks, faults>>

\* a poll tick while the display configuration stays as it is
PollTick == PollTickOn({last_display_ids})

\* a poll tick that may find any display configuration
DisplayPollTick == PollTickOn(DisplayLists)

\* EngineCommand::SwitchToDisplay and NotificationAction::SwitchToDisplay
CmdSwitchToDisplay ==
    /\ engine_loop = "running"
    /\ \E display_id \in DisplayIds, uuid_ok \in BOOLEAN :
         /\ Becomes(SwitchToDisplay(Now, display_id, uuid_ok))
         /\ CmdTaken(Cmd("SwitchToDisplay", display_id))
    /\ UNCHANGED <<workerVars, input_chan, cfg, engine_loop, timerVars, obs_ticks, faults>>

RotateFails ==
    IF IsSome(current_session) THEN {"none", "write", "stop", "start"} ELSE {"none"}

\* segment_timer.tick() => rotate_segment (an Err is only logged); while the
\* engine awaits in rotate_segment the input backend, a thread of its own,
\* sends the events `arrivals`, one of `arrival_sets`
RotationTickOn(arrival_sets) ==
    /\ engine_loop = "running"
    /\ segment_timer
    /\ starts < MaxSegments
    /\ \E o \in Outcomes(CurrentSegmentId, RotateFails) :
         /\ Becomes(RotateSegment(Now, cfg, ObsNowNs, o.unreadable,
                                  o.undeletable, o.fail))
         /\ faults' = faults + Cost(o)
    /\ \E arrivals \in arrival_sets : input_chan' = input_chan \o arrivals
    /\ UNCHANGED <<workerVars, cmdVars, cfg, engine_loop, timerVars, obs_ticks>>

\* a rotation during which the backend sends nothing
RotationTick == RotationTickOn({<< >>})

\* ------------------------------------------------------- the upload task
\* hash % 401 of jitter_multiplier, sampled at its least, middle and greatest
JitterBuckets == {0, 200, 400}

RECURSIVE Pow2(_)
Pow2(k) == IF k = 0 THEN 1 ELSE 2 * Pow2(k - 1)

Min(a, b) == IF a <= b THEN a ELSE b

\* a backoff that does not grow
FlatBackoff(attempt) == BASE_RETRY_BACKOFF

\* backoff_for_attempt, in ms.  From a shift of 8 on the product exceeds
\* MAX_RETRY_BACKOFF (30 s * 256 > 2 h), so the min (and the unwrap_or of an
\* overflowing checked_shl / checked_mul) yields MAX_RETRY_BACKOFF; the guard
\* keeps the product within 32-bit integers.
BackoffForAttempt(attempt) ==
    LET shift == SatSub(attempt, 1)
    IN IF shift >= 16 THEN MAX_RETRY_BACKOFF
       ELSE Min(BASE_RETRY_BACKOFF * Pow2(shift), MAX_RETRY_BACKOFF)

\* Duration::mul_f64(0.8 + bucket / 1000.0); every backoff is a whole number
\* of seconds, so the product is a whole number of ms
MulJitter(delay, bucket) == (delay \div 1000) * (800 + bucket)

\* a delay without the final clamp
UnclampedDelay(attempt, bucket) == (BackoffForAttempt(attempt) \div 1000) * (800 + bucket)

\* the delay pushed with a RetryItem after failed attempt number `attempt`
RetryDelay(attempt, bucket) ==
    LET d == MulJitter(BackoffForAttempt(attempt), bucket)
    IN IF d > MAX_RETRY_BACKOFF THEN MAX_RETRY_BACKOFF ELSE d

\* a give-up test that lets the exact end of the window through
WindowPassed(now, first_failed_at) == now - first_failed_at > MAX_RETRY_WINDOW

\* the give-up test of the retry arm
WindowExceeded(now, first_failed_at) ==
    SatSub(now, first_failed_at) >= MAX_RETRY_WINDOW

\* a heap that is not reversed: the latest deadline on top
HeapLatest(q) ==
    CHOOSE e \in q : \A o \in q :
        \/ e.next_attempt_at > o.next_attempt_at
        \/ (e.next_attempt_at = o.next_attempt_at /\ e.sequence >= o.sequence)

\* BinaryHeap::peek / pop under RetryEntry::cmp (reversed: a min-heap on
\* next_attempt_at, then sequence)
HeapTop(q) ==
    CHOOSE e \in q : \A o \in q :
        \/ e.next_attempt_at < o.next_attempt_at
        \/ (e.next_attempt_at = o.next_attempt_at /\ e.sequence <= o.sequence)

RetryEntry(segment, attempts, first_failed_at, next_attempt_at, seq) ==
    [next_attempt_at |-> next_attempt_at, sequence |-> seq,
     item |-> [segment |-> segment, attempts |-> attempts,
               first_failed_at |-> first_failed_at,
               next_attempt_at |-> next_attempt_at]]

\* a StartSession arm that leaves the queue as it is
QueueKept(q, active, session_id) == q

\* the StartSession arm: the queue after the message
QueueAfterStartSession(q, active, session_id) ==
    IF active # Some(session_id) THEN {} ELSE q

\* whether a segment of `session_id` is dropped under `active`
WrongSession(active, session_id) == IsSome(active) /\ Unwrap(active) # session_id

\* a cleanup that does not look at the result of the upload
FilesRemovedOnAnyResult(ok, delete_after_upload) == delete_after_upload

\* upload_and_cleanup: which files are removed
FilesRemoved(ok, delete_after_upload) == ok /\ delete_after_upload

Max(a, b) == IF a >= b THEN a ELSE b

NoHist == [tries |-> 0, oks |-> 0, after_ok |-> FALSE, after_gave_up |-> FALSE,
           max_age |-> 0, last_n |-> 0, last_delay |-> 0, last_bucket |-> 0,
           gave_up |-> FALSE, gave_up_age |-> 0, dropped |-> FALSE,
           foreign |-> FALSE]

HistOf(h, chunk_id) == IF chunk_id \in DOMAIN h THEN h[chunk_id] ELSE NoHist

SetHist(h, chunk_id, r) == (chunk_id :> r) @@ h

\* instants at which an upload may return: at once, after a long transfer,
\* or at one of the instants `at`
UploadEnds(at) ==
    {clock} \cup (IF faults < MaxFaults
                  THEN {t \in at \cup {clock + 60000} : t > clock}
                  ELSE {})

\* the instants at which the retry window of a queued entry ends
WindowEnds == {e.item.first_failed_at + MAX_RETRY_WINDOW : e \in retry_queue}

\* the instant at which a failing retry of `item` must return for its next
\* deadline to fall exactly on the end of its retry window
BoundaryEnds(item, bucket) ==
    {SatSub(item.first_failed_at + MAX_RETRY_WINDOW,
            RetryDelay(item.attempts + 1, bucket))}

\* one call of upload_and_cleanup on `segment`, and what the arm does with
\* its result; `prior` is the RetryItem being retried (None for a first try),
\* `active` the task's active_session_id when the call is made
UploadAttempt(segment, prior, active, ok, bucket, end, queue) ==
    LET chunk_id == segment.chunk.chunk_id
        attempt == IF IsSome(prior) THEN Unwrap(prior).attempts + 1 ELSE 1
        first == IF IsSome(prior) THEN Unwrap(prior).first_failed_at ELSE end
        delay == RetryDelay(attempt, bucket)
        h == HistOf(whist, chunk_id)
        started == [h EXCEPT !.tries = @ + 1,
                             !.after_ok = @ \/ h.oks > 0,
                             !.after_gave_up = @ \/ h.gave_up,
                             !.foreign = @ \/ active # Some(segment.chunk.session_id),
                             !.max_age = IF IsSome(prior)
                                         THEN Max(@, wnow - Unwrap(prior).first_failed_at)
                                         ELSE @]
    IN /\ clock' = end
       /\ faults' = IF end = clock THEN faults ELSE faults + 1
       /\ IF FilesRemoved(ok, cfg.delete_after_upload)
          THEN /\ disk_videos' = disk_videos \ {v \in disk_videos :
                                    Some(v) = segment.chunk.video_path}
               /\ disk_inputs' = {f \in disk_inputs : f.seg # segment.input_path}
          ELSE UNCHANGED <<disk_videos, disk_inputs>>
       /\ IF ok
          THEN /\ retry_queue' = queue
               /\ sequence' = sequence
               /\ whist' = SetHist(whist, chunk_id, [started EXCEPT !.oks = @ + 1])
               /\ upload_failures' = upload_failures
          ELSE /\ sequence' = sequence + 1
               /\ retry_queue' = queue \cup
                    {RetryEntry(segment, attempt, first, end + delay, sequence + 1)}
               /\ whist' = SetHist(whist, chunk_id,
                              [started EXCEPT !.last_n = attempt,
                                              !.last_delay = delay,
                                              !.last_bucket = bucket])
               /\ upload_failures' = upload_failures + 1

Spawned == engine_loop # "created"

MayFailUpload(budget) == IF upload_failures < budget THEN BOOLEAN ELSE {TRUE}

\* upload_rx.recv() arm
WorkerRecvN(budget) ==
    /\ Spawned
    /\ wpc = "select"
    /\ upload_chan # << >>
    /\ upload_chan' = Tail(upload_chan)
    /\ LET msg == Head(upload_chan)
       IN IF msg.kind = "StartSession"
          THEN /\ retry_queue' = QueueAfterStartSession(retry_queue,
                                    active_session_id, msg.session)
               /\ active_session_id' = Some(msg.session)
               /\ whist' = [c \in DOMAIN whist |->
                               IF \E e \in retry_queue \ retry_queue' :
                                     e.item.segment.chunk.chunk_id = c
                               THEN [whist[c] EXCEPT !.dropped = TRUE]
                               ELSE whist[c]]
               /\ UNCHANGED <<sequence, clock, upload_failures, faults,
                              disk_videos, disk_inputs>>
          ELSE LET segment == Unwrap(msg.segment)
                   sid == segment.chunk.session_id
               IN IF WrongSession(active_session_id, sid)
                  THEN /\ whist' = SetHist(whist, segment.chunk.chunk_id,
                                     [HistOf(whist, segment.chunk.chunk_id)
                                        EXCEPT !.dropped = TRUE])
                       /\ UNCHANGED <<retry_queue, sequence, active_session_id,
                                      clock, upload_failures, faults,
                                      disk_videos, disk_inputs>>
                  ELSE /\ active_session_id' = Some(sid)
                       /\ \E ok \in MayFailUpload(budget), bucket \in JitterBuckets,
                             end \in UploadEnds(WindowEnds) :
                            UploadAttempt(segment, None, Some(sid), ok, bucket, end,
                                          retry_queue)
    /\ UNCHANGED <<engineVars, chanVars, ctx_recording, ctx_paused, ctx_state, obs_ticks, disk_partials,
                   next_uuid, next_event_id, pushed, sent, starts,
                   write_failed, started_video, wpc, wnow, displayVars>>

\* sleep_until(next_retry_at) arm: time reaches the earliest deadline
SleepUntilDeadline ==
    /\ Spawned
    /\ wpc = "select"
    /\ retry_queue # {}
    /\ clock < HeapTop(retry_queue).next_attempt_at
    /\ clock' = HeapTop(retry_queue).next_attempt_at
    /\ UNCHANGED <<engineVars, chanVars, upload_chan, envVars, histVars, retry_queue,
                   sequence, active_session_id, wpc, wnow, whist, upload_failures,
                   displayVars>>

\* the retry arm is taken: let now = Instant::now()
RetryWake ==
    /\ Spawned
    /\ wpc = "select"
    /\ retry_queue # {}
    /\ HeapTop(retry_queue).next_attempt_at <= clock
    /\ wnow' = clock
    /\ wpc' = "drain"
    /\ UNCHANGED <<engineVars, chanVars, upload_chan, envVars, histVars, retry_queue,
                   sequence, active_session_id, clock, whist, upload_failures,
                   displayVars>>

\* a while condition that never finds a due entry
DueNever == FALSE

\* the while condition of the retry arm
Due == retry_queue # {} /\ HeapTop(retry_queue).next_attempt_at <= wnow

\* one iteration of the while loop of the retry arm
DrainStepN(budget) ==
    /\ wpc = "drain"
    /\ Due
    /\ LET entry == HeapTop(retry_queue)
           item == entry.item
           rest == retry_queue \ {entry}
           chunk_id == item.segment.chunk.chunk_id
       IN IF WrongSession(active_session_id, item.segment.chunk.session_id)
          THEN /\ retry_queue' = rest
               /\ whist' = SetHist(whist, chunk_id,
                              [HistOf(whist, chunk_id) EXCEPT !.dropped = TRUE])
               /\ UNCHANGED <<sequence, clock, upload_failures, faults,
                              disk_videos, disk_inputs>>
          ELSE IF WindowExceeded(wnow, item.first_failed_at)
          THEN /\ retry_queue' = rest
               /\ whist' = SetHist(whist, chunk_id,
                              [HistOf(whist, chunk_id) EXCEPT
                                  !.gave_up = TRUE,
                                  !.gave_up_age = wnow - item.first_failed_at])
               /\ UNCHANGED <<sequence, clock, upload_failures, faults,
                              disk_videos, disk_inputs>>
          ELSE \E ok \in MayFailUpload(budget), bucket \in JitterBuckets :
                 \E end \in UploadEnds(WindowEnds \cup BoundaryEnds(item, bucket)) :
                    UploadAttempt(item.segment, Some(item), active_session_id,
                                  ok, bucket, end, rest)
    /\ UNCHANGED <<engineVars, chanVars, upload_chan, ctx_recording, ctx_paused, ctx_state, obs_ticks,
                   disk_partials, next_uuid, next_event_id, pushed, sent, starts,
                   write_failed, started_video,
                   active_session_id, wpc, wnow, displayVars>>

\* the while condition is false: back to the select
DrainDone ==
    /\ wpc = "drain"
    /\ ~Due
    /\ wpc' = "select"
    /\ UNCHANGED <<engineVars, chanVars, upload_chan, envVars, histVars, retry_queue,
                   sequence, active_session_id, wnow, clock, whist,
                   upload_failures, displayVars>>

EngineNext ==
    \/ Run
    \/ CmdStartRecording
    \/ CmdStopRecording
    \/ CmdSetCaptureEnabled
    \/ CmdShutdown
    \/ InputEvent
    \/ PollTick
    \/ RotationTick

Next == EngineNext

\* the engine alone: commands, input events, polls and rotations
Spec == Init /\ [][Next]_vars

\* ------------------------------------ the engine together with its upload task
WorkerRecv == WorkerRecvN(MaxUploadFailures)

DrainStep == DrainStepN(MaxUploadFailures)

SysNext ==
    \/ Run
    \/ CmdStartRecording
    \/ CmdStopRecording
    \/ CmdShutdown
    \/ RotationTick
    \/ WorkerRecv
    \/ SleepUntilDeadline
    \/ RetryWake
    \/ DrainStep
    \/ DrainDone

SysSpec == Init /\ [][SysNext]_vars

\* ------------------------------------------- one segment, retried to the end
RetryConfig == Config(TRUE, {}, 0, TRUE, TRUE, TRUE)

RetryInit == New(RetryConfig)

RetryRecv == WorkerRecvN(MaxRetryFailures)

RetryDrainStep == DrainStepN(MaxRetryFailures)

RetryNext ==
    \/ Run
    \/ CmdStopRecording
    \/ RetryRecv
    \/ SleepUntilDeadline
    \/ RetryWake
    \/ RetryDrainStep
    \/ DrainDone

RetrySpec == RetryInit /\ [][RetryNext]_vars

\* ------------------------- the upload task under the scheduling of its select
\* Sessions that are started and stopped, and the upload task under the
\* scheduling of its loop: the loop never ends, time advances, an upload call
\* returns, and an arm of the select that stays ready is taken, so each step
\* of the task is weakly fair.
LiveNext ==
    \/ Run
    \/ CmdStartRecording
    \/ CmdStopRecording
    \/ RotationTick
    \/ WorkerRecv
    \/ SleepUntilDeadline
    \/ RetryWake
    \/ DrainStep
    \/ DrainDone

LiveConfig == Config(TRUE, {}, 5, TRUE, TRUE, FALSE)

LiveInit == New(LiveConfig)

LiveSpec ==
    /\ LiveInit
    /\ [][LiveNext]_vars
    /\ WF_vars(WorkerRecv)
    /\ WF_vars(SleepUntilDeadline)
    /\ WF_vars(RetryWake)
    /\ WF_vars(DrainStep)
    /\ WF_vars(DrainDone)

\* ------------------------------ the retry arm without help from the channel
\* One session of two segments whose uploads may both fail.  Once the deadline
\* it was given has passed, sleep_until is ready at every poll of the select
\* and stays ready, so the retry arm is weakly fair; nothing is asked of the
\* recv arm, and a message may never arrive or stay in the channel for ever.
DueConfig == Config(TRUE, {}, 5, TRUE, TRUE, TRUE)

DueInit == New(DueConfig)

DueRecv == WorkerRecvN(MaxDueFailures)

DueDrainStep == DrainStepN(MaxDueFailures)

DueNext ==
    \/ Run
    \/ CmdStopRecording
    \/ RotationTick
    \/ DueRecv
    \/ SleepUntilDeadline
    \/ RetryWake
    \/ DueDrainStep
    \/ DrainDone

DueSpec ==
    /\ DueInit
    /\ [][DueNext]_vars
    /\ WF_vars(RetryWake)

\* ------------------------------------- the engine and its rotation timer
\* a second passes while the engine waits in its select
TimePasses ==
    /\ engine_loop = "running"
    /\ engine_now < MaxSeconds
    /\ engine_now' = engine_now + 1
    /\ UNCHANGED <<cfg, engine_loop, capture_enabled, last_frontmost_app,
                   current_session, recording_start_ns, main_session_id,
                   segment_index, event_buffer, segment_timer, timer_start,
                   status, upload_chan, envVars, histVars, workerVars,
                   displayVars, chanVars>>

TimerNext ==
    \/ Run
    \/ CmdStartRecording
    \/ CmdStopRecording
    \/ RotationTick
    \/ TimePasses

TimerSpec == Init /\ [][TimerNext]_vars

\* ----------------------- the capture runtime driven through its operations
\* CaptureContext::setup_capture: on Ok there is at least one source
SetupCapture(s, ok) ==
    IF ok THEN [s EXCEPT !.ctx_state.any_source_active = TRUE]
    ELSE [s EXCEPT !.ok = FALSE]

\* CaptureContext::fully_recreate_sources: on Ok there is at least one source
FullyRecreateSources(s, ok) ==
    IF ok THEN [s EXCEPT !.ctx_state.any_source_active = TRUE]
    ELSE [s EXCEPT !.ok = FALSE]

\* CaptureContext::start_recording(seg)
CtxStartRecording(s, seg, start_ok) ==
    IF ~CtxStartSucceeds(s, start_ok) THEN [s EXCEPT !.ok = FALSE]
    ELSE [s EXCEPT !.ctx_recording = Some(seg),
                   !.ctx_paused = FALSE,
                   !.ctx_state = StateAfterStart(@),
                   !.started_video = Some(seg),
                   !.disk_videos = @ \cup {seg}]

\* CaptureContext::reinitialize_for_display_change; `fail` is the call that
\* returns an error, if any
ReinitializeForDisplayChange(s, fail) ==
    LET stopped == IF IsSome(s.ctx_recording) THEN CtxStopRecording(s, fail) ELSE s
        dropped == [stopped EXCEPT !.ctx_recording = None,
                                   !.ctx_paused = FALSE,
                                   !.ctx_state = DefaultState]
    IN IF IsSome(s.ctx_recording) /\ fail = "stop" THEN [stopped EXCEPT !.ok = FALSE]
       ELSE IF fail = "initialize" THEN [dropped EXCEPT !.ok = FALSE]
       ELSE SetupCapture(dropped, fail # "setup")

\* CaptureContext::update_state(f), for a closure f that leaves the flags
\* as `flags`: should_capture is computed again after f ran
UpdateState(s, flags) ==
    [s EXCEPT !.ctx_paused = flags.is_paused,
              !.ctx_state =
                  [is_recording |-> flags.is_recording,
                   any_source_active |-> flags.any_source_active,
                   should_capture |-> /\ flags.is_recording
                                      /\ ~flags.is_paused
                                      /\ flags.any_source_active]]

\* what a closure given to update_state can leave in the CaptureState
Flags ==
    [should_capture : BOOLEAN, is_recording : BOOLEAN, is_paused : BOOLEAN,
     any_source_active : BOOLEAN]

\* an operation of the capture runtime is called, the engine left aside
CtxCalled(r, failed) ==
    /\ engine_loop = "created"
    /\ Becomes([r EXCEPT !.ok = TRUE])
    /\ faults' = IF failed THEN faults + 1 ELSE faults
    /\ UNCHANGED <<cfg, engine_loop, timerVars, obs_ticks, workerVars, chanVars>>

CtxSetupCapture == \E ok \in MayFail : CtxCalled(SetupCapture(Now, ok), ~ok)

CtxFullyRecreateSources ==
    \E ok \in MayFail : CtxCalled(FullyRecreateSources(Now, ok), ~ok)

CtxStart ==
    /\ starts < MaxSegments
    /\ \E start_ok \in (IF IsSome(ctx_recording) THEN {TRUE} ELSE MayFail) :
         CtxCalled([CtxStartRecording(Now, SegmentId(Some(1), starts), start_ok)
                       EXCEPT !.starts = @ + 1], ~start_ok)

CtxStop ==
    \E fail \in (IF IsSome(ctx_recording) /\ faults < MaxFaults
                  THEN {"none", "stop"} ELSE {"none"}) :
       CtxCalled(CtxStopRecording(Now, fail), fail # "none")

\* pause() and resume() of the recording are reached only when one is held
HeldMayFail == IF IsSome(ctx_recording) THEN MayFail ELSE {TRUE}

CtxPause == \E ok \in HeldMayFail : CtxCalled(CtxPauseRecording(Now, ok), ~ok)

CtxResume == \E ok \in HeldMayFail : CtxCalled(CtxResumeRecording(Now, ok), ~ok)

CtxReinitialize ==
    \E fail \in (IF faults < MaxFaults
                  THEN {"none", "stop", "initialize", "setup"} ELSE {"none"}) :
       /\ fail = "stop" => IsSome(ctx_recording)
       /\ CtxCalled(ReinitializeForDisplayChange(Now, fail), fail # "none")

CtxUpdateState == \E flags \in Flags : CtxCalled(UpdateState(Now, flags), FALSE)

CtxNext ==
    \/ CtxSetupCapture
    \/ CtxFullyRecreateSources
    \/ CtxStart
    \/ CtxStop
    \/ CtxPause
    \/ CtxResume
    \/ CtxReinitialize
    \/ CtxUpdateState

\* a capture runtime fresh from CaptureContext::new and initialize()
CtxInit == \E config \in Configs : NewWith(config, << >>, DefaultState)

CtxSpec == CtxInit /\ [][CtxNext]_vars

\* one input event is enough to have something in the Event Buffer
DisplayInputEvent == InputEventN(1)

\* --------------------------------------- the engine and its gate, one event
GateNext ==
    \/ Run
    \/ CmdStartRecording
    \/ CmdStopRecording
    \/ CmdSetCaptureEnabled
    \/ DisplayInputEvent
    \/ PollTick
    \/ RotationTick

GateSpec == Init /\ [][GateNext]_vars

\* ------------------------------- the engine and the input backend's channel
InputMsg(raw_ts, in_rotation) == [raw_ts |-> raw_ts, in_rotation |-> in_rotation]

\* the input backend sends an event on input_tx while the engine is in its
\* select
BackendSend ==
    /\ engine_loop = "running"
    /\ Len(input_chan) < MaxInFlight
    /\ \E raw_ts \in RawStamps :
         input_chan' = Append(input_chan, InputMsg(raw_ts, FALSE))
    /\ UNCHANGED <<engineVars, upload_chan, envVars, histVars, workerVars,
                   displayVars, cmdVars>>

\* Some(event) = input_rx.recv() => handle_input_event(event)
InputRecv ==
    /\ input_chan # << >>
    /\ InputHandled(1, {Head(input_chan).raw_ts}, Tail(input_chan))

\* what the backend may send while the engine is inside rotate_segment
Arrivals ==
    {<< >>} \cup (IF Len(input_chan) < MaxInFlight
                  THEN {<<InputMsg(raw_ts, TRUE)>> : raw_ts \in RawStamps}
                  ELSE {})

SeamRotationTick == RotationTickOn(Arrivals)

SeamNext ==
    \/ Run
    \/ CmdStartRecording
    \/ CmdStopRecording
    \/ PollTick
    \/ BackendSend
    \/ InputRecv
    \/ SeamRotationTick

SeamSpec == Init /\ [][SeamNext]_vars

\* ------------------------------------- the engine and its command channel
\* the commands run() has an arm for (display switches left aside)
Commands ==
    {Cmd("StartRecording", 0), Cmd("StopRecording", 0), Cmd("Shutdown", 0)}
        \cup {Cmd("SetCaptureEnabled", enabled) : enabled \in BOOLEAN}

\* the tray, the Ctrl+C handler or main send a command on cmd_tx
CmdSend ==
    /\ Len(received) < MaxCmds
    /\ \E cmd \in Commands :
         /\ cmd_chan' = Append(cmd_chan, cmd)
         /\ received' = Append(received, cmd)
    /\ UNCHANGED <<engineVars, upload_chan, envVars, histVars, workerVars,
                   displayVars, input_chan, processed>>

\* Some(cmd) = self.cmd_rx.recv() => match cmd
CmdRecv ==
    /\ cmd_chan # << >>
    /\ \/ CmdStartRecording
       \/ CmdStopRecording
       \/ CmdSetCaptureEnabled
       \/ CmdShutdown

CmdNext ==
    \/ Run
    \/ CmdSend
    \/ CmdRecv
    \/ DisplayInputEvent

CmdSpec == Init /\ [][CmdNext]_vars

\* ------------------------------------------- the engine with pause and resume
PauseNext ==
    \/ Run
    \/ CmdStartRecording
    \/ CmdStopRecording
    \/ CmdPauseRecording
    \/ CmdResumeRecording
    \/ DisplayInputEvent
    \/ PollTick

PauseSpec == Init /\ [][PauseNext]_vars

\* ----------------------------------- the engine on a host whose displays change
DisplayConfig == Config(TRUE, {}, 5, TRUE, FALSE, FALSE)

DisplayInit == \E ids \in DisplayLists : NewOn(DisplayConfig, ids)

DisplayNext ==
    \/ Run
    \/ CmdStartRecording
    \/ CmdStopRecording
    \/ CmdSwitchToDisplay
    \/ DisplayInputEvent
    \/ DisplayPollTick

DisplaySpec == DisplayInit /\ [][DisplayNext]_vars

\* ================================================================ properties
Ids(events) == {events[i].id : i \in 1..Len(events)}

IsSorted(events) ==
    \A i \in 1..Len(events) : \A j \in 1..Len(events) :
        i < j => events[i].timestamp_us <= events[j].timestamp_us

\* every final event list there is: the final input files on disk and the
\* chunks handed to the upload task
FinalLists ==
    {[seg |-> f.seg, events |-> f.events] : f \in disk_inputs}
        \cup {[seg |-> sent[i].chunk.chunk_id, events |-> sent[i].chunk.events] :
                i \in 1..Len(sent)}

\* C1: no admitted input event appears in the final event lists of two
\* distinct segments.
C1_NoEventInTwoSegments ==
    \A f \in FinalLists : \A g \in FinalLists :
        f.seg # g.seg => Ids(f.events) \cap Ids(g.events) = {}

\* two segments of one session, each with an event in its final list
C1_Witness ==
    \E f \in FinalLists : \E g \in FinalLists :
        /\ f.seg.sid = g.seg.sid
        /\ f.seg.idx # g.seg.idx
        /\ f.events # << >>
        /\ g.events # << >>

\* a segment is consolidated once its final input file exists and it is no
\* longer the segment being recorded
Consolidated(f) == ~(IsSome(current_session) /\ f.seg = CurrentSegmentId)

\* C2: every event pushed while segment S was current is in S's final list
\* once S is consolidated, whether it was in the buffer or spilled.
C2_PushedEventsConsolidated ==
    \A f \in disk_inputs :
        Consolidated(f) =>
            \A p \in pushed : (p.in_session /\ p.seg = f.seg) => p.id \in Ids(f.events)

\* the recording_active conjunct of should_capture: without it should_capture
\* is false whatever the other conjuncts are
RecordingActive == IsSome(current_session)

\* C3: while should_capture is false, in particular while no session is
\* active, handling an input event leaves the Event Buffer unchanged.
C3_GateClosedWithoutSession ==
    [][(InputEvent /\ ~RecordingActive) => event_buffer' = event_buffer]_vars

\* C4: every final event list is sorted by timestamp_us; the chunk's
\* (start_time_us, end_time_us) are its first and last timestamps, (0, 0) for
\* an empty list; every event has 0 <= timestamp_us <= end_time_us.
C4_FinalListsSorted ==
    /\ \A f \in FinalLists : IsSorted(f.events)
    /\ \A i \in 1..Len(sent) :
         LET c == sent[i].chunk
         IN /\ c.start_time_us = (IF c.events = << >> THEN 0 ELSE c.events[1].timestamp_us)
            /\ c.end_time_us = (IF c.events = << >> THEN 0
                                ELSE c.events[Len(c.events)].timestamp_us)
            /\ \A k \in 1..Len(c.events) :
                 0 <= c.events[k].timestamp_us /\ c.events[k].timestamp_us <= c.end_time_us

\* a chunk was sent whose list had to be reordered: the event pushed later
\* carries the smaller timestamp
C4_Witness ==
    \E i \in 1..Len(sent) :
        LET ev == sent[i].chunk.events
        IN /\ Len(ev) >= 2
           /\ ev[1].id > ev[2].id
           /\ ev[1].timestamp_us < ev[2].timestamp_us

\* a rotation that replaced the recording of a session by its next one: the
\* capture runtime was started while a session went on
RotatedStep ==
    /\ IsSome(current_session) /\ IsSome(current_session')
    /\ main_session_id' = main_session_id
    /\ starts' = starts + 1

\* a recording of a new session began
NewSessionStep ==
    /\ IsSome(current_session')
    /\ main_session_id' # main_session_id

\* C5: segment_index grows by exactly 1 at each successful rotation, never
\* decreases within a session, and is 0 for the first segment of a session.
C5_SegmentIndexSteps ==
    [][/\ RotatedStep => segment_index' = segment_index + 1
       /\ (IsSome(main_session_id) /\ main_session_id' = main_session_id)
             => segment_index' >= segment_index
       /\ (IsSome(main_session_id) /\ main_session_id' = main_session_id
             /\ ~RotatedStep) => segment_index' = segment_index
       /\ NewSessionStep =>
             /\ segment_index' = 0
             /\ Unwrap(current_session').session_id = SegmentId(main_session_id', 0)
      ]_vars

\* a session was rotated: its segment 0 is consolidated and its segment 1 is
\* being recorded
C5_Witness ==
    /\ IsSome(current_session)
    /\ segment_index = 1
    /\ Unwrap(current_session).session_id = SegmentId(main_session_id, 1)
    /\ \E f \in FinalLists : f.seg = SegmentId(main_session_id, 0)

Chunks == DOMAIN whist

QueuedChunks == {e.item.segment.chunk.chunk_id : e \in retry_queue}

InFlightChunks ==
    {Unwrap(upload_chan[i].segment).chunk.chunk_id :
        i \in {k \in 1..Len(upload_chan) : upload_chan[k].kind = "Segment"}}

\* C6: each chunk_id is sent to the upload task at most once, and after a
\* successful attempt the task never starts another attempt for that
\* segment: it is in neither the channel nor the retry queue.
C6_UploadedAtMostOnce ==
    /\ \A i \in 1..Len(sent) : \A j \in 1..Len(sent) :
         i # j => sent[i].chunk.chunk_id # sent[j].chunk.chunk_id
    /\ \A c \in Chunks :
         /\ ~whist[c].after_ok
         /\ whist[c].oks <= 1
         /\ whist[c].oks = 1 => c \notin QueuedChunks \cup InFlightChunks

\* two segments were sent, and one of them was uploaded by a retry
C6_Witness ==
    /\ Len(sent) >= 2
    /\ \E c \in Chunks : whist[c].oks = 1 /\ whist[c].tries >= 2

\* C7: whatever the jitter and the pattern of failures, a segment is retried
\* (attempted again after its first failed attempt) at most 8 times.
C7_AtMostEightRetries ==
    \A c \in Chunks : whist[c].tries - 1 <= 8

\* a segment was retried 8 times
C7_Witness ==
    \E c \in Chunks : whist[c].tries - 1 = 8

\* the delay of the backoff schedule as stated: min(30 s * 2^(n-1), 2 h) * j
\* with j = (800 + bucket) / 1000, in ms
ScheduleDelay(n, bucket) ==
    (Min(30000 * Pow2(n - 1), 7200000) \div 1000) * (800 + bucket)

\* C8 as stated: the delay after the n-th failed attempt is
\* min(30 s * 2^(n-1), 2 h) * j with j in [0.8, 1.2].
C8_DelayIsJitteredBackoff ==
    \A c \in Chunks :
        whist[c].last_n >= 1 =>
            whist[c].last_delay = ScheduleDelay(whist[c].last_n, whist[c].last_bucket)

\* C8: the delay after the n-th failed attempt is
\* min(min(30 s * 2^(n-1), 2 h) * j, 2 h) with j in [0.8, 1.2]; the delays
\* after failed attempts 1, 2 and 3 lie in [24, 36] s, [48, 72] s and
\* [96, 144] s.
C8_DelayIsClampedJitteredBackoff ==
    \A c \in Chunks :
        LET n == whist[c].last_n
            d == whist[c].last_delay
        IN n >= 1 =>
            /\ d = Min(ScheduleDelay(n, whist[c].last_bucket), 7200000)
            /\ n = 1 => (24000 <= d /\ d <= 36000)
            /\ n = 2 => (48000 <= d /\ d <= 72000)
            /\ n = 3 => (96000 <= d /\ d <= 144000)

\* the ninth failed attempt drew a jitter above 1: its delay is the clamp
C8_Witness ==
    \E c \in Chunks :
        /\ whist[c].last_n = 9
        /\ whist[c].last_bucket = 400
        /\ whist[c].last_delay = 7200000

\* C9: no retry is started when now - first_failed_at >= 2 h (now being the
\* instant the retry arm took when it woke); an entry that comes due at that
\* age is removed without an attempt and is never queued again.
C9_NoAttemptPastWindow ==
    \A c \in Chunks :
        /\ whist[c].max_age < 7200000
        /\ ~whist[c].after_gave_up
        /\ whist[c].gave_up => c \notin QueuedChunks

\* an entry came due exactly 2 h after its first failure and was given up
C9_Witness ==
    \E c \in Chunks :
        /\ whist[c].gave_up
        /\ whist[c].gave_up_age = 7200000
        /\ whist[c].tries >= 2

InputSegs == {f.seg : f \in disk_inputs}

OnDisk(c) == c \in disk_videos /\ c \in InputSegs

\* C10: the upload task deletes a segment's video and input files only after
\* an upload of that segment has succeeded and only when delete_after_upload
\* is set; after a failed attempt, a drop on a session change or a give-up
\* the files are still on disk.
C10_FilesDeletedOnlyAfterSuccess ==
    /\ [](\A c \in Chunks : whist[c].oks = 0 => OnDisk(c))
    /\ [][\A c \in (disk_videos \ disk_videos') \cup (InputSegs \ InputSegs') :
                /\ cfg.delete_after_upload
                /\ c \in DOMAIN whist'
                /\ whist'[c].oks = HistOf(whist, c).oks + 1]_vars

\* with delete_after_upload set: the files of an uploaded segment are gone,
\* and a segment whose upload failed and whose retry was dropped when the
\* next session began is still on disk
C10_Witness ==
    /\ cfg.delete_after_upload
    /\ \E c \in Chunks : whist[c].oks = 1 /\ ~OnDisk(c)
    /\ \E c \in Chunks :
         whist[c].oks = 0 /\ whist[c].tries >= 1 /\ whist[c].dropped /\ OnDisk(c)

SessionOf(e) == e.item.segment.chunk.session_id

\* the upload task takes a StartSession message from the channel
StartSessionStep ==
    /\ upload_chan # << >>
    /\ Head(upload_chan).kind = "StartSession"
    /\ upload_chan' = Tail(upload_chan)

\* C11: right after the upload task processes StartSession(s) the retry queue
\* holds no entry of a session other than s; at every moment every queued
\* entry belongs to the task's active session, and the task starts no upload
\* attempt for a segment of another session.
C11_RetriesOfActiveSessionOnly ==
    /\ [](\A e \in retry_queue : active_session_id = Some(SessionOf(e)))
    /\ [](\A c \in Chunks : ~whist[c].foreign)
    /\ [][StartSessionStep =>
            \A e \in retry_queue' : SessionOf(e) = Head(upload_chan).session]_vars

\* a retry queued for one session was cleared by the StartSession of the
\* next one, which is now the active session, and no attempt followed
C11_Witness ==
    \E i \in 1..Len(sent) :
        LET c == sent[i].chunk
        IN /\ c.chunk_id \in Chunks
           /\ whist[c.chunk_id].dropped
           /\ whist[c.chunk_id].tries = 1
           /\ IsSome(active_session_id)
           /\ Unwrap(active_session_id) # c.session_id

\* a rotation whose start of the next segment failed: the capture runtime was
\* asked to start and the session that was going on has none after it
RotationStartFailedStep ==
    /\ starts' = starts + 1
    /\ IsSome(current_session)
    /\ ~IsSome(current_session')

\* the channel after the step is the channel before it followed by the
\* Segment message of the segment that was current
OutgoingSegmentEnqueued ==
    /\ Len(upload_chan') = Len(upload_chan) + 1
    /\ SubSeq(upload_chan', 1, Len(upload_chan)) = upload_chan
    /\ LET msg == upload_chan'[Len(upload_chan')]
       IN /\ msg.kind = "Segment"
          /\ Unwrap(msg.segment).chunk.chunk_id = CurrentSegmentId
          /\ sent' = Append(sent, Unwrap(msg.segment))

\* C12: when the capture runtime fails to start the next segment during a
\* rotation, afterwards no session is active (current_session,
\* recording_start_ns and main_session_id cleared, segment_index 0), the gate
\* is closed, the status is Error, and the outgoing segment that was sent to
\* the upload task is still enqueued, unchanged.
C12_RotationStartFailureEndsSession ==
    [][RotationStartFailedStep =>
          /\ current_session' = None
          /\ recording_start_ns' = None
          /\ main_session_id' = None
          /\ segment_index' = 0
          /\ ~capture_enabled'
          /\ status' = "Error"
          /\ cfg.uploader_configured => OutgoingSegmentEnqueued]_vars

\* the start failed in a rotation: the session is gone, and the last
\* message in the channel is the segment the rotation closed
C12_Witness ==
    /\ status = "Error"
    /\ current_session = None
    /\ main_session_id = None
    /\ upload_chan # << >>
    /\ LET msg == upload_chan[Len(upload_chan)]
       IN /\ msg.kind = "Segment"
          /\ Unwrap(msg.segment).chunk.chunk_id \in InputSegs
          /\ Unwrap(msg.segment) = sent[Len(sent)]

\* an operation in which the write of a segment's final input file failed
FinalWriteFailedStep == write_failed' /\ faults' > faults

\* C13: when serializing or writing a segment's final input file fails during
\* a rotation or during StopRecording, that operation sends no Segment
\* message for the segment to the upload task.
C13_NoSegmentSentAfterWriteFailure ==
    [][FinalWriteFailedStep =>
          /\ upload_chan' = upload_chan
          /\ sent' = sent]_vars

\* the final write of the current segment failed with the uploader
\* configured: the session goes on and nothing has been sent for it
C13_Witness ==
    /\ write_failed
    /\ cfg.uploader_configured
    /\ IsSome(current_session)
    /\ \A i \in 1..Len(sent) : sent[i].chunk.chunk_id # CurrentSegmentId
    /\ CurrentSegmentId \notin InputSegs

\* C14: when a consolidation fails to write the final input file, every
\* partial spill file of the segment that existed before it still exists
\* afterwards: partial files are deleted only once the final file is written.
C14_PartialsKeptOnWriteFailure ==
    [][FinalWriteFailedStep =>
          PartialsOf(disk_partials, CurrentSegmentId) \subseteq disk_partials']_vars

\* C15: whenever Shutdown is processed while a session is active, the capture
\* runtime's stop_recording is invoked before the engine loop terminates,
\* whatever fails in the steps before it (consolidation, serialization or
\* writing of the final input file): the recording the runtime held is taken.
C15_ShutdownStopsCaptureRuntime ==
    [][(CmdShutdown /\ IsSome(current_session) /\ IsSome(ctx_recording)) =>
          ctx_recording' = None]_vars

\* C16: for every CompletedSegment sent to the upload task, chunk_id,
\* input_path and video_path name the same segment id, and every event in it
\* was buffered while that segment's video was the one the capture runtime
\* had started; this holds after any sequence of operations, including
\* rotations and stops in which a call of the capture runtime failed.
C16_EventsGoWithTheirVideo ==
    \A i \in 1..Len(sent) :
        LET c == sent[i].chunk
        IN /\ sent[i].input_path = c.chunk_id
           /\ c.video_path = Some(c.chunk_id)
           /\ \A k \in 1..Len(c.events) : \A p \in pushed :
                 p.id = c.events[k].id =>
                    /\ p.seg = c.chunk_id
                    /\ p.video = Some(c.chunk_id)

\* a rotation sent a segment with an event in it and the capture runtime then
\* failed to start the next one
C16_Witness ==
    /\ status = "Error"
    /\ current_session = None
    /\ main_session_id = None
    /\ sent # << >>
    /\ sent[Len(sent)].chunk.events # << >>
    /\ started_video = Some(sent[Len(sent)].chunk.chunk_id)

FocusedApps == {None} \cup {Some(a) : a \in Apps}

\* app_allowed as stated: capture_all, or a focused app of the allow list
AllowedAsStated(capture_all, target_apps, focused_app) ==
    capture_all \/ (IsSome(focused_app) /\ Unwrap(focused_app) \in target_apps)

DisplayEvent(kind, display_id, from_id, to_id) ==
    /\ display_event'.kind = kind
    /\ display_event'.display_id = display_id
    /\ display_event'.from_id = from_id
    /\ display_event'.to_id = to_id

\* a poll tick whose check_for_changes call sampled other ids, or returned
\* another event, than the call before it
DisplayCheckStep == display_event' # display_event

\* C18: check_for_changes, as a function of (last_display_ids, the sampled
\* current ids, original_id, were_all_disconnected), emits nothing when
\* current = last; AllDisconnected when current is empty; OriginalReturned
\* when original_id is in current and not in last (also for the first
\* non-empty sample after a full disconnect); otherwise
\* SwitchedToNew{from = first(last), to = first(current)}, with 0 for the first
\* of an empty list; after every call last_display_ids = current, and
\* were_all_disconnected is true only if current is empty.
C18_DisplayEventTable ==
    /\ [][DisplayCheckStep =>
          LET last == last_display_ids
              current == display_event'.sampled
              orig == original_display_id
          IN /\ current = last => DisplayEvent("None", 0, 0, 0)
             /\ (current # last /\ current = << >>) =>
                    DisplayEvent("AllDisconnected", 0, 0, 0)
             /\ (current # last /\ current # << >> /\ IsSome(orig)
                   /\ Contains(current, Unwrap(orig))
                   /\ ~Contains(last, Unwrap(orig))) =>
                    DisplayEvent("OriginalReturned", Unwrap(orig), 0, 0)
             /\ (current # last /\ current # << >>
                   /\ ~(IsSome(orig) /\ Contains(current, Unwrap(orig))
                          /\ ~Contains(last, Unwrap(orig)))) =>
                    DisplayEvent("SwitchedToNew", 0,
                                 IF last = << >> THEN 0 ELSE Head(last),
                                 Head(current))]_vars
    /\ [](display_event # NoEvent => last_display_ids = display_event.sampled)
    /\ [](displays_were_disconnected => last_display_ids = << >>)

\* the original display came back with the first non-empty sample after a
\* full disconnect
C18_Witness ==
    /\ display_event.kind = "OriginalReturned"
    /\ IsSome(original_display_id)
    /\ display_event.display_id = Unwrap(original_display_id)
    /\ Len(last_display_ids) = 2
    /\ last_display_ids[2] = Unwrap(original_display_id)
    /\ ~displays_were_disconnected

\* C19: handling a display event (AllDisconnected, OriginalReturned or
\* SwitchedToNew) never stops or restarts the recording and never switches
\* displays: current_session, main_session_id, segment_index, the Event
\* Buffer and original_id are unchanged, and on SwitchedToNew no source
\* refresh is requested; while a session goes on, original_id changes only
\* when SwitchToDisplay{id} is processed.
C19_DisplayEventsLeaveRecordingAlone ==
    /\ [][(DisplayCheckStep /\ display_event'.kind # "None") =>
            /\ current_session' = current_session
            /\ recording_start_ns' = recording_start_ns
            /\ main_session_id' = main_session_id
            /\ segment_index' = segment_index
            /\ event_buffer' = event_buffer
            /\ ctx_recording' = ctx_recording
            /\ original_display_id' = original_display_id
            /\ display_event'.kind = "SwitchedToNew" => ~display_event'.refresh]_vars
    /\ [][(IsSome(current_session) /\ current_session' = current_session
              /\ original_display_id' # original_display_id) =>
            CmdSwitchToDisplay]_vars

\* during a session with an event in the buffer the displays changed to
\* one that is not the original: the user was notified, and the original
\* display is still the one the recording started on
C19_Witness ==
    /\ IsSome(current_session)
    /\ event_buffer # << >>
    /\ display_event.kind = "SwitchedToNew"
    /\ display_event.notice = "display-change"
    /\ IsSome(original_display_id)
    /\ display_event.to_id # Unwrap(original_display_id)
    /\ display_event.from_id = Unwrap(original_display_id)
    /\ ~Contains(last_display_ids, Unwrap(original_display_id))

\* C20: after PauseRecording is processed with a session active and not
\* paused, the capture runtime is paused and the gate is closed, and the gate
\* stays closed (no input event enters the Event Buffer, also across poll
\* ticks with an allowed focused app) until ResumeRecording is processed.
C20_GateClosedWhilePaused ==
    /\ [](ctx_paused => ~capture_enabled)
    /\ [][(ctx_paused /\ ctx_paused') => event_buffer' = event_buffer]_vars

Elems(events) == {events[i] : i \in 1..Len(events)}

\* the events held in the Event Buffer and in the partial files
StoredEvents(buffer, partials) ==
    Elems(buffer) \cup UNION {Elems(f.events) : f \in partials}

\* C21: every event pushed into the Event Buffer carries timestamp_us =
\* (now_ns - start_time_ns) / 1000 saturating at 0, with now_ns the capture
\* clock at handling time and start_time_ns the start the capture runtime
\* returned for the segment current at the push; the backend's own timestamp
\* is never stored.
C21_EventsCarryCaptureClockStamp ==
    [][next_event_id' > next_event_id =>
          \A e \in StoredEvents(event_buffer', disk_partials') :
              e.id = next_event_id =>
                  /\ IsSome(current_session)
                  /\ e.timestamp_us =
                        ElapsedUs(ObsNs(obs_ticks'),
                                  Unwrap(current_session).start_time_ns)]_vars

\* a call of the capture runtime returned an error: start_recording (in
\* start_recording or in a rotation), or get_video_frame_time for an event
\* that was admitted without a spill
CaptureRuntimeLostStep ==
    \/ starts' = starts + 1 /\ current_session' = None
    \/ /\ next_event_id' > next_event_id
       /\ faults' > faults
       /\ ~WillSpill

\* C22: if get_video_frame_time or start_recording of the capture runtime
\* returns an error, the engine broadcasts status WaitingForOBS and aborts the
\* session, so that no session is active afterwards.
C22_RuntimeLossAbortsSession ==
    [][CaptureRuntimeLostStep =>
          /\ status' = "WaitingForOBS"
          /\ current_session' = None
          /\ recording_start_ns' = None
          /\ main_session_id' = None]_vars

\* C23: after the handling of any input event completes, the Event Buffer
\* holds fewer than SPILL_THRESHOLD events, for every segment duration
\* (rotation disabled included) and whether or not the write of the partial
\* file succeeds.
C23_BufferBelowSpillThreshold == Len(event_buffer) < SpillThreshold

\* with rotation disabled the buffer reached the threshold and the write of
\* the partial file failed: the events are in neither the buffer nor a file
C23_Witness ==
    /\ cfg.segment_duration_secs = 0
    /\ IsSome(current_session)
    /\ Cardinality({q \in pushed : q.seg = CurrentSegmentId}) >= SpillThreshold
    /\ event_buffer = << >>
    /\ PartialsOf(disk_partials, CurrentSegmentId) = {}
    /\ faults > 0

\* a StopRecording (or Shutdown) that ended the session
StopSucceededStep ==
    /\ IsSome(current_session)
    /\ current_session' = None
    /\ status' = "Idle"

\* C24: with segment_duration_s = 0 no rotation timer is ever created and
\* rotate_segment is never executed, and every StartRecording ...
\* StopRecording cycle produces exactly one final input file, that of segment
\* index 0.
C24_NoRotationWithoutDuration ==
    /\ [](cfg.segment_duration_secs = 0 =>
            /\ ~segment_timer
            /\ segment_index = 0
            /\ \A f \in disk_inputs : f.seg.idx = 0)
    /\ [][cfg.segment_duration_secs = 0 =>
            /\ IsSome(current_session) => starts' = starts
            /\ InputSegs \subseteq InputSegs'
            /\ InputSegs' \ InputSegs \subseteq {SegmentId(main_session_id, 0)}
            /\ StopSucceededStep =>
                  SegmentId(main_session_id, 0) \in InputSegs' \ InputSegs]_vars

\* with rotation disabled two sessions were started and stopped: there
\* are two final input files, one for segment 0 of each session
C24_Witness ==
    /\ cfg.segment_duration_secs = 0
    /\ current_session = None
    /\ status = "Idle"
    /\ InputSegs = {SegmentId(Some(1), 0), SegmentId(Some(2), 0)}

C26_GateClosedAcrossRotation ==
    [][(IsSome(current_session) /\ segment_timer /\ RotationTick) =>
          IF RotatedStep THEN capture_enabled' = capture_enabled
          ELSE ~capture_enabled']_vars

\* an event was admitted to segment 0, the session was rotated, and the gate
\* is open in segment 1
C26_Witness ==
    /\ IsSome(current_session)
    /\ segment_index = 1
    /\ capture_enabled
    /\ status = "Capturing"
    /\ event_buffer = << >>
    /\ \E f \in disk_inputs :
          f.seg = SegmentId(main_session_id, 0) /\ f.events # << >>

\* the engine takes from the input channel an event that the backend sent
\* while a rotation was in progress
SeamEventTakenStep ==
    /\ input_chan # << >>
    /\ Head(input_chan).in_rotation
    /\ input_chan' = Tail(input_chan)

\* C27: an input event that the input backend sends on the input channel
\* while a rotation is in progress is never added to the Event Buffer,
\* neither for the outgoing segment nor for the new one.
C27_NoEventOfTheSeamBuffered ==
    [][SeamEventTakenStep =>
          /\ next_event_id' = next_event_id
          /\ event_buffer' = event_buffer]_vars

\* should_capture as stated: a session is recording, it is not paused, and
\* the focused app (as the last poll found it) is allowed
ShouldCaptureAsStated ==
    /\ IsSome(current_session)
    /\ ~ctx_paused
    /\ AllowedAsStated(cfg.capture_all, cfg.target_apps, last_frontmost_app)

\* C28: whenever should_capture changes value because of StartRecording,
\* StopRecording, pause/resume, a source-activity change or a focused-app
\* change, the gate takes the new value before the next input event is
\* handled: between two handlers of the running engine the gate equals
\* should_capture, and an event is admitted only while should_capture holds.
C28_GateTracksShouldCapture ==
    /\ [](engine_loop = "running" => (capture_enabled <=> ShouldCaptureAsStated))
    /\ [][next_event_id' > next_event_id => ShouldCaptureAsStated]_vars

IsPrefix(a, b) == Len(a) <= Len(b) /\ SubSeq(b, 1, Len(a)) = a

\* C29: the engine processes commands one at a time in the order they were
\* received on the command channel, and no command received after a Shutdown
\* is ever processed.
C29_CommandsInOrderUntilShutdown ==
    /\ [](/\ IsPrefix(processed, received)
          /\ received = processed \o cmd_chan
          /\ \A i \in 1..Len(processed) :
                processed[i].kind = "Shutdown" =>
                    i = Len(processed) /\ engine_loop # "running")
    /\ [][/\ processed' # processed =>
                /\ cmd_chan # << >>
                /\ processed' = Append(processed, Head(cmd_chan))
                /\ cmd_chan' = Tail(cmd_chan)
          /\ engine_loop \in {"stopped", "failed"} =>
                processed' = processed /\ engineVars' = engineVars]_vars

\* Shutdown was processed after another command, the loop has ended, and a
\* command sent after it is still in the channel
C29_Witness ==
    /\ engine_loop = "stopped"
    /\ Len(processed) >= 2
    /\ processed[Len(processed)].kind = "Shutdown"
    /\ cmd_chan # << >>

\* the engine takes a StartRecording command from the channel while a
\* session is active
StartWhileActiveStep ==
    /\ IsSome(current_session)
    /\ cmd_chan # << >>
    /\ Head(cmd_chan).kind = "StartRecording"
    /\ processed' = Append(processed, Head(cmd_chan))

\* C30: a StartRecording command processed while a session is already active
\* changes no session state: main_session_id, segment_index,
\* current_session, recording_start_ns and the Event Buffer are unchanged,
\* the capture runtime is not called, and no StartSession message is sent to
\* the upload task.
C30_StartWhileActiveChangesNothing ==
    [][StartWhileActiveStep =>
          /\ main_session_id' = main_session_id
          /\ segment_index' = segment_index
          /\ current_session' = current_session
          /\ recording_start_ns' = recording_start_ns
          /\ event_buffer' = event_buffer
          /\ starts' = starts
          /\ ctx_recording' = ctx_recording
          /\ started_video' = started_video
          /\ next_uuid' = next_uuid
          /\ upload_chan' = upload_chan
          /\ engine_loop' = "running"]_vars

\* StartRecording was processed a second time during the session the
\* first one began, with an event in the buffer: there is still one session,
\* one start of the capture runtime and one StartSession message
C30_Witness ==
    /\ Len(processed) = 3
    /\ processed[1].kind = "StartRecording"
    /\ processed[2].kind = "SetCaptureEnabled"
    /\ processed[3].kind = "StartRecording"
    /\ IsSome(current_session)
    /\ main_session_id = Some(1)
    /\ starts = 1
    /\ event_buffer # << >>
    /\ upload_chan = <<StartSessionMsg(1)>>

\* C31: in every engine state in which no session is active (after
\* StopRecording, and after a rotation that aborted the session) no rotation
\* timer exists, so no rotation tick is delivered outside a session.
C31_NoTimerOutsideSession ==
    (engine_loop = "running" /\ ~IsSome(current_session)) => ~segment_timer

\* the handler sent a Segment message to the upload task
SegmentSentStep == Len(sent') > Len(sent)

SentIds == {sent[i].chunk.chunk_id : i \in 1..Len(sent)}

C33_OriginalOnlyInSession ==
    (engine_loop \in {"created", "running"} /\ ~IsSome(current_session)) =>
        original_display_id = None

\* the retries that are due at instant t
DueAt(t) == {e \in retry_queue : e.next_attempt_at <= t}

\* the upload task is at its select with a retry that is due
DueAtSelect == wpc = "select" /\ DueAt(clock) # {}

\* the task waited in its select: time passed and nothing else happened
SleptStep == wpc = "select" /\ wpc' = "select" /\ clock' > clock
                /\ upload_chan' = upload_chan

\* an iteration of the retry arm took an entry off the queue
PoppedStep == wpc = "drain" /\ retry_queue \ retry_queue' # {}

\* C34: whenever the upload task is at its select and the earliest retry
\* entry is already due (next_attempt_at <= now), it does not wait for a
\* channel message: the due retries are attempted even if no further message
\* ever arrives; and no retry is attempted before its next_attempt_at.
C34_DueRetriesNotDelayed ==
    /\ DueAtSelect ~> (wpc = "drain")
    /\ [][SleptStep =>
            /\ DueAt(clock) = {}
            /\ \A e \in retry_queue : clock' <= e.next_attempt_at]_vars
    /\ [][PoppedStep =>
            \A e \in retry_queue \ retry_queue' :
                e.next_attempt_at <= wnow /\ wnow <= clock]_vars
    /\ [][(wpc = "drain" /\ wpc' = "select") => DueAt(wnow) = {}]_vars

\* two retries are queued with different deadlines, the earlier one is due
\* and the channel is empty
C34_Witness ==
    /\ DueAtSelect
    /\ upload_chan = << >>
    /\ Cardinality(retry_queue) = 2
    /\ retry_queue \ DueAt(clock) # {}

\* C35: the engine loop terminates only by processing Shutdown: a failure of
\* StartRecording, of StopRecording or of writing a segment's final input
\* file is reported (log or status) and the loop keeps serving commands,
\* input events and timers; after a finalize failure the session is still
\* active.
C35_LoopEndsOnlyOnShutdown ==
    /\ [](engine_loop \in {"stopped", "failed"} =>
            /\ processed # << >>
            /\ processed[Len(processed)].kind = "Shutdown")
    /\ [][FinalWriteFailedStep =>
            IsSome(current_session') /\ engine_loop' = "running"]_vars

\* a handler in which a recording actually started: a session began
SessionBeganStep == ~IsSome(current_session) /\ IsSome(current_session')

\* C36: the rotation timer is created or reset only when a recording
\* actually starts: a StartRecording command that finds a session already
\* active leaves the pending rotation deadline unchanged, so within a session
\* the k-th rotation tick fires k * segment_duration_s after the session's
\* start.
C36_TimerResetOnlyAtSessionStart ==
    /\ [][(IsSome(timer_start') /\ timer_start' # timer_start) =>
            SessionBeganStep /\ timer_start' = Some(engine_now)]_vars
    /\ [][(IsSome(current_session) /\ IsSome(current_session')) =>
            timer_start' = timer_start]_vars

\* C37: each time the engine returns to its select (between handled events),
\* main_session_id is set iff current_session is set iff recording_start_ns
\* is set; this holds after every outcome of autostart, StartRecording,
\* rotation and StopRecording, including failed ones.
C37_SessionFieldsSetTogether ==
    engine_loop = "running" =>
        /\ IsSome(main_session_id) <=> IsSome(current_session)
        /\ IsSome(current_session) <=> IsSome(recording_start_ns)

\* C38: each time the engine returns to its select, the engine's
\* current_session is set iff the capture runtime holds an active recording,
\* and both refer to the same segment id; hence whenever the gate is open a
\* video of the current segment is being recorded.  This holds also after a
\* rotation or stop in which the capture runtime's stop_recording returned an
\* error.
C38_EngineAndRuntimeAgree ==
    engine_loop = "running" =>
        /\ IsSome(current_session) <=> IsSome(ctx_recording)
        /\ IsSome(current_session) =>
              ctx_recording = Some(Unwrap(current_session).session_id)
        /\ capture_enabled => ctx_recording = Some(CurrentSegmentId)

\* C39: every SwitchedToNew event emitted by DisplayMonitor.check_for_changes
\* names two different displays (from_id # to_id); in particular no
\* SwitchedToNew is emitted when a display is added or removed while the
\* first (primary) display id stays the same.
C39_SwitchedToNewNamesTwoDisplays ==
    display_event.kind = "SwitchedToNew" =>
        display_event.from_id # display_event.to_id

\* C40: after any sequence of CaptureContext operations (setup_capture,
\* start_recording, pause_recording, resume_recording, stop_recording,
\* fully_recreate_sources, reinitialize_for_display_change, update_state),
\* CaptureState.should_capture equals recording.is_recording /\
\* ~recording.is_paused /\ any_source_active.
C40_ShouldCaptureIsTheConjunction ==
    ctx_state.should_capture <=>
        (ctx_state.is_recording /\ ~ctx_paused /\ ctx_state.any_source_active)

====
